---- MODULE Spec2Model ----
(***************************************************************************)
(* Prompt refinement engine of the coloring-book image generator           *)
(* (server/services/promptRefinement.js): InputSanitizer, the subject      *)
(* classifier, the template engine and PromptRefinementService.refinePrompt*)
(* with its external-completion branch and its fallback.                   *)
(*                                                                         *)
(* JavaScript strings are TLA+ strings (Len, \o and SubSeq act on their    *)
(* characters).  Every other JavaScript value is a tagged record.          *)
(***************************************************************************)
EXTENDS Integers, Sequences, FiniteSets, TLC

(***************************************************************************)
(* Bounds of the model.                                                    *)
(***************************************************************************)
\* number of vocabulary pieces concatenated into a text given to a sanitizer
\* or classifier function called on its own
MaxWords == 3

\* number of vocabulary pieces concatenated into the text of a refinePrompt call
MaxRefineWords == 2

\* number of preference fields a caller sets in one customizations object
MaxPrefFields == 1

\* number of refinePrompt calls in flight on the one service object
MaxCalls == 2

\* documents the user_images collection ever holds
MaxImages == 2

\* image ids listed by one /delete-bulk request
MaxBatch == 2

\* number of fields of a customizations object handed to validateCustomizations
\* when it is called on its own
MaxValidatorFields == 2

(***************************************************************************)
(* JavaScript values: [t, v, p] = type tag, primitive value, own           *)
(* properties (a function from property names to values).                  *)
(***************************************************************************)
NoProps == [k \in {} |-> ""]

Undefined == [t |-> "undefined", v |-> "", p |-> NoProps]

Null == [t |-> "null", v |-> "", p |-> NoProps]

Str(s) == [t |-> "string", v |-> s, p |-> NoProps]

\* a number, held by its decimal form (what a template literal prints)
Num(s) == [t |-> "number", v |-> s, p |-> NoProps]

Bool(b) == [t |-> "boolean", v |-> IF b THEN "true" ELSE "false", p |-> NoProps]

\* an object with the own properties props
ObjOf(props) == [t |-> "object", v |-> "[object Object]", p |-> props]

\* ToBoolean
Truthy(x) ==
  CASE x.t = "undefined" -> FALSE
    [] x.t = "null" -> FALSE
    [] x.t = "string" -> x.v # ""
    [] x.t = "number" -> x.v \notin {"0", "NaN"}
    [] x.t = "boolean" -> x.v = "true"
    [] OTHER -> TRUE

\* ToString as a template literal applies it by a template literal
StringOf(x) ==
  CASE x.t = "undefined" -> "undefined"
    [] x.t = "null" -> "null"
    [] OTHER -> x.v

\* a || b
OrElse(a, b) == IF Truthy(a) THEN a ELSE b

Nullish(x) == x.t \in {"undefined", "null"}

\* x.k for a value x that is neither undefined nor null
Get(x, k) == IF x.t = "object" /\ k \in DOMAIN x.p THEN x.p[k] ELSE Undefined

\* a parameter declared with a default value: the default replaces undefined only
DefaultParam(x, d) == IF x.t = "undefined" THEN d ELSE x

\* x?.substring(0, 100) short-circuits on undefined and null only; on any other
\* value that is not a string the property is undefined and calling it throws
OptionalSubstringThrows(x) == ~Nullish(x) /\ x.t # "string"

(***************************************************************************)
(* String primitives.                                                      *)
(***************************************************************************)
CharAt(s, i) == SubSeq(s, i, i)

\* String.prototype.includes
Includes(s, t) ==
  \E i \in 1..(Len(s) - Len(t) + 1) : SubSeq(s, i, i + Len(t) - 1) = t

\* String.prototype.startsWith
StartsWith(s, t) == Len(s) >= Len(t) /\ SubSeq(s, 1, Len(t)) = t

\* s repeated n times
RECURSIVE Repeat(_, _)
Repeat(s, n) ==
  IF n = 0 THEN ""
  ELSE IF n % 2 = 0 THEN Repeat(s \o s, n \div 2)
  ELSE s \o Repeat(s \o s, n \div 2)

\* Array.prototype.join
RECURSIVE Join(_, _)
Join(seq, sep) ==
  IF Len(seq) = 0 THEN ""
  ELSE IF Len(seq) = 1 THEN Head(seq)
  ELSE Head(seq) \o sep \o Join(Tail(seq), sep)

\* the white space characters of the model's alphabet (\s, and what trim removes)
WhiteSpace == {" ", "\t"}

UpperToLower ==
  [ A |-> "a", B |-> "b", C |-> "c", D |-> "d", E |-> "e", F |-> "f", G |-> "g",
    H |-> "h", I |-> "i", J |-> "j", K |-> "k", L |-> "l", M |-> "m", N |-> "n",
    O |-> "o", P |-> "p", Q |-> "q", R |-> "r", S |-> "s", T |-> "t", U |-> "u",
    V |-> "v", W |-> "w", X |-> "x", Y |-> "y", Z |-> "z" ]

\* the number of white space characters at the start (step = 1, from = 1) or
\* at the end (step = -1, from = Len(s)) of a text that is not all white space
WhiteSpaceRun(s, from, step) ==
  CHOOSE n \in 0..Len(s) :
    /\ CharAt(s, from + step * n) \notin WhiteSpace
    /\ \A m \in 0..(n - 1) : CharAt(s, from + step * m) \in WhiteSpace

\* String.prototype.trim
Trim(s) ==
  IF \A i \in 1..Len(s) : CharAt(s, i) \in WhiteSpace THEN ""
  ELSE SubSeq(s, 1 + WhiteSpaceRun(s, 1, 1), Len(s) - WhiteSpaceRun(s, Len(s), -1))

\* A TLA+ string cannot hold a back quote: the alphabet writes it as "^", a
\* character that no text of the model uses for anything else.
BackQuote == "^"

\* the characters removed by sanitizeText
HarmfulChars == {"<", ">", "\"", "'", BackQuote}

\* what a character-wise replacement puts in the place of the character at
\* index i of s: its lower-case form (toLowerCase), nothing for a harmful
\* character (replace(/[<>"'BackQuote]/g, '')), one space for the first
\* character of a white space run and nothing for the others (replace(/\s+/g, ' '))
Replacement(rule, s, i) ==
  LET c == CharAt(s, i)
  IN  CASE rule = "toLowerCase" -> IF c \in DOMAIN UpperToLower THEN UpperToLower[c] ELSE c
        [] rule = "stripHarmful" -> IF c \in HarmfulChars THEN "" ELSE c
        [] rule = "normalizeWhitespace" ->
             IF c \notin WhiteSpace THEN c
             ELSE IF i > 1 /\ CharAt(s, i - 1) \in WhiteSpace THEN ""
             ELSE " "

\* the replacements of the characters lo..hi of s, concatenated (the range is
\* halved so that texts of several hundred characters stay cheap to evaluate)
RECURSIVE ReplaceRange(_, _, _, _)
ReplaceRange(rule, s, lo, hi) ==
  IF lo > hi THEN ""
  ELSE IF lo = hi THEN Replacement(rule, s, lo)
  ELSE LET mid == (lo + hi) \div 2
       IN  ReplaceRange(rule, s, lo, mid) \o ReplaceRange(rule, s, mid + 1, hi)

\* String.prototype.toLowerCase
ToLowerCase(s) == ReplaceRange("toLowerCase", s, 1, Len(s))

\* s.replace(/[<>"'BackQuote]/g, '')
StripHarmful(s) == ReplaceRange("stripHarmful", s, 1, Len(s))

\* s.replace(/\s+/g, ' '): every maximal run of white space becomes one space
NormalizeWhitespace(s) == ReplaceRange("normalizeWhitespace", s, 1, Len(s))

(***************************************************************************)
(* InputSanitizer.  A function that can throw returns [ok, v, err]: the    *)
(* value returned, or the message of the Error thrown.                     *)
(***************************************************************************)
Returned(x) == [ok |-> TRUE, v |-> x, err |-> ""]

Thrown(v0, msg) == [ok |-> FALSE, v |-> v0, err |-> msg]

MaxInputLength == 500

\* sanitizeText with the length bound applied to the raw input
sanitizeTextRawLength(input) ==
  IF ~Truthy(input) \/ input.t # "string"
  THEN Thrown("", "Invalid input: must be a non-empty string")
  ELSE LET sanitized == NormalizeWhitespace(StripHarmful(Trim(input.v)))
       IN  IF Len(sanitized) < 1 \/ Len(input.v) > MaxInputLength
           THEN Thrown("", "Input must be between 1 and 500 characters")
           ELSE Returned(sanitized)

sanitizeText(input) ==
  IF ~Truthy(input) \/ input.t # "string"
  THEN Thrown("", "Invalid input: must be a non-empty string")
  ELSE LET sanitized == NormalizeWhitespace(StripHarmful(Trim(input.v)))
       IN  IF Len(sanitized) < 1 \/ Len(sanitized) > MaxInputLength
           THEN Thrown("", "Input must be between 1 and 500 characters")
           ELSE Returned(sanitized)

CustomizationFields == <<"complexity", "ageGroup", "lineThickness", "border", "theme">>

ValidValues ==
  [ complexity |-> {"simple", "medium", "detailed"},
    ageGroup |-> {"kids", "teens", "adults"},
    lineThickness |-> {"thin", "medium", "thick"},
    border |-> {"with", "without"},
    theme |-> {"animals", "mandalas", "fantasy", "nature", "vehicles", "food",
               "holidays", "sports"} ]

InvalidMessage ==
  [ complexity |-> "Invalid complexity level",
    ageGroup |-> "Invalid age group",
    lineThickness |-> "Invalid line thickness",
    border |-> "Invalid border option",
    theme |-> "Invalid theme" ]

\* [...].includes(value)
InEnum(k, x) == x.t = "string" /\ x.v \in ValidValues[k]

validateCustomizations(customizations) ==
  IF ~Truthy(customizations) \/ customizations.t # "object"
  THEN Returned(NoProps)
  ELSE LET set == {i \in 1..Len(CustomizationFields) :
                     Truthy(Get(customizations, CustomizationFields[i]))}
           bad == {i \in set : ~InEnum(CustomizationFields[i],
                                       Get(customizations, CustomizationFields[i]))}
       IN  IF bad # {}
           THEN Thrown(NoProps,
                       InvalidMessage[CustomizationFields[
                         CHOOSE i \in bad : \A j \in bad : i <= j]])
           ELSE Returned([k \in {CustomizationFields[i] : i \in set} |->
                            Get(customizations, k)])

InappropriateKeywords ==
  << "violence", "blood", "weapon", "gun", "knife", "death", "kill", "murder",
     "sexual", "nude", "naked", "adult", "explicit", "inappropriate", "sexy",
     "drug", "alcohol", "beer", "wine", "cigarette", "smoking", "marijuana",
     "scary", "horror", "demon", "devil", "evil", "dark magic", "satanic",
     "suicide", "self-harm", "cutting", "depression", "anxiety" >>

\* FoundInappropriate stopping at the first block-listed term found
FoundInappropriateFirst(input) ==
  LET lowerInput == ToLowerCase(input)
      found == SelectSeq(InappropriateKeywords,
                         LAMBDA keyword : Includes(lowerInput, keyword))
  IN  IF found = << >> THEN found ELSE << found[1] >>

\* the block-listed terms found in a text, in block-list order
FoundInappropriate(input) ==
  LET lowerInput == ToLowerCase(input)
  IN  SelectSeq(InappropriateKeywords, LAMBDA keyword : Includes(lowerInput, keyword))

checkFamilyFriendly(input) ==
  LET foundInappropriate == FoundInappropriate(input)
  IN  IF Len(foundInappropriate) > 0
      THEN Thrown(FALSE, "Content contains inappropriate terms: "
                           \o Join(foundInappropriate, ", "))
      ELSE Returned(TRUE)

(***************************************************************************)
(* The catalogs built by the constructor of PromptRefinementService.       *)
(***************************************************************************)
CategoryOrder ==
  <<"domesticAnimals", "wildAnimals", "prehistoric", "marineLife", "insects",
    "fantasy", "nature", "vehicles", "food", "objects", "sports", "holidays", "music",
    "mandalas", "abstract">>

SubjectPatterns ==
  [ domesticAnimals |-> <<
        "dog", "puppy", "cat", "kitten", "rabbit", "bunny", "hamster", "guinea pig",
        "bird", "parrot", "canary", "fish", "goldfish", "horse", "pony", "cow", "pig",
        "sheep", "goat", "chicken", "duck", "goose", "turkey", "llama", "alpaca">>,
    wildAnimals |-> <<
        "lion", "tiger", "elephant", "giraffe", "zebra", "rhinoceros", "hippopotamus",
        "bear", "wolf", "fox", "deer", "moose", "elk", "squirrel", "raccoon", "monkey",
        "ape", "gorilla", "chimpanzee", "kangaroo", "koala", "panda", "leopard",
        "cheetah", "jaguar", "lynx", "bobcat", "buffalo", "bison", "camel">>,
    prehistoric |-> <<
        "dinosaur", "tyrannosaurus", "t-rex", "triceratops", "stegosaurus",
        "brontosaurus", "velociraptor", "pterodactyl", "mammoth", "saber-tooth",
        "sabertooth", "dino", "prehistoric", "fossil", "ancient">>,
    marineLife |-> <<
        "whale", "dolphin", "shark", "octopus", "squid", "jellyfish", "starfish",
        "seahorse", "turtle", "seal", "walrus", "penguin", "crab", "lobster", "shrimp",
        "manta ray", "stingray", "coral", "seaweed", "submarine">>,
    insects |-> <<
        "butterfly", "bee", "ladybug", "spider", "ant", "grasshopper", "cricket",
        "dragonfly", "caterpillar", "snail", "worm", "beetle", "moth", "firefly",
        "centipede">>,
    fantasy |-> <<
        "dragon", "unicorn", "fairy", "mermaid", "phoenix", "griffin", "pegasus",
        "centaur", "elf", "dwarf", "troll", "goblin", "ogre", "wizard", "witch",
        "magic", "magical", "enchanted", "mystical", "legendary", "mythical", "castle",
        "tower", "potion", "wand">>,
    nature |-> <<
        "tree", "forest", "flower", "rose", "sunflower", "daisy", "tulip", "lily",
        "garden", "leaf", "grass", "bush", "mountain", "hill", "valley", "river",
        "lake", "ocean", "beach", "desert", "waterfall", "rainbow", "cloud", "sun",
        "moon", "star", "snowflake", "lightning", "landscape", "scenery">>,
    vehicles |-> <<
        "car", "truck", "bus", "motorcycle", "bicycle", "train", "airplane",
        "helicopter", "boat", "ship", "submarine", "rocket", "spaceship", "tank",
        "tractor", "fire truck", "ambulance", "police car", "taxi", "van", "jeep",
        "sports car", "race car", "hot air balloon", "scooter">>,
    food |-> <<
        "cake", "cookie", "ice cream", "pizza", "burger", "sandwich", "apple",
        "banana", "orange", "strawberry", "cherry", "donut", "cupcake", "candy",
        "chocolate", "fruit", "vegetable", "bread", "cheese", "pie">>,
    objects |-> <<
        "house", "home", "chair", "table", "lamp", "clock", "book", "toy", "ball",
        "kite", "balloon", "umbrella", "hat", "shoe", "bag", "cup", "bottle", "key",
        "phone", "computer">>,
    sports |-> <<
        "soccer", "football", "basketball", "baseball", "tennis", "golf", "swimming",
        "running", "cycling", "skating", "skiing", "surfing", "climbing", "dancing",
        "yoga">>,
    holidays |-> <<
        "christmas", "halloween", "easter", "birthday", "valentine", "thanksgiving",
        "new year", "party", "celebration", "gift", "present", "ornament",
        "decoration", "holiday", "festival">>,
    music |-> <<
        "guitar", "piano", "violin", "drums", "trumpet", "flute", "saxophone", "harp",
        "organ", "microphone">>,
    mandalas |-> <<
        "mandala", "pattern", "geometric", "circular", "symmetrical", "ornate",
        "decorative", "intricate", "spiral", "kaleidoscope">>,
    abstract |-> <<
        "abstract", "artistic", "design", "creative", "modern", "contemporary",
        "minimalist", "stylized", "artistic pattern", "art">> ]

EnhancementTemplates ==
  [ domesticAnimals |->
      [ simple |->
          [pre |-> "friendly ",
           post |-> " with basic features, cute expression, and simple pose"],
        medium |->
          [pre |-> "detailed ",
           post |-> " with natural fur/feather textures, expressive eyes, playful pose, and simple background elements"],
        detailed |->
          [pre |-> "intricate ",
           post |-> " with complex fur/feather patterns, highly detailed anatomical features, dynamic pose, environmental context, and companion elements"] ],
    wildAnimals |->
      [ simple |->
          [pre |-> "majestic ",
           post |-> " with basic features, calm expression, and natural stance"],
        medium |->
          [pre |-> "detailed ",
           post |-> " with natural textures, environmental context, characteristic features, and habitat elements"],
        detailed |->
          [pre |-> "intricate ",
           post |-> " with complex patterns, detailed anatomy, natural habitat scene, weather effects, and ecosystem elements"] ],
    prehistoric |->
      [ simple |->
          [pre |-> "friendly ",
           post |-> " with basic dinosaur features, simple prehistoric elements, and gentle appearance"],
        medium |->
          [pre |-> "detailed ",
           post |-> " with scale textures, prehistoric vegetation, volcanic landscape, and period-appropriate elements"],
        detailed |->
          [pre |-> "intricate ",
           post |-> " with complex scale patterns, detailed prehistoric ecosystem, volcanic activity, ancient plant life, and geological formations"] ],
    marineLife |->
      [ simple |->
          [pre |-> "graceful ",
           post |-> " with basic aquatic features, simple water elements, and peaceful expression"],
        medium |->
          [pre |-> "detailed ",
           post |-> " with natural textures, ocean currents, coral reef elements, and marine ecosystem context"],
        detailed |->
          [pre |-> "intricate ",
           post |-> " with complex patterns, detailed underwater scene, coral formations, sea plants, and diverse marine life"] ],
    insects |->
      [ simple |->
          [pre |-> "cute ",
           post |-> " with basic insect features, simple garden elements, and friendly appearance"],
        medium |->
          [pre |-> "detailed ",
           post |-> " with wing patterns, garden setting, flower elements, and natural textures"],
        detailed |->
          [pre |-> "intricate ",
           post |-> " with complex wing designs, detailed garden ecosystem, various flowers, leaves, and micro-environment elements"] ],
    fantasy |->
      [ simple |->
          [pre |-> "magical ",
           post |-> " with basic fantasy elements, gentle mystical features, and enchanted appearance"],
        medium |->
          [pre |-> "enchanted ",
           post |-> " with mystical details, magical sparkles, fantasy landscape, and ethereal elements"],
        detailed |->
          [pre |-> "intricate ",
           post |-> " with complex magical patterns, detailed fantasy realm, mystical creatures, magical phenomena, and elaborate enchanted environment"] ],
    nature |->
      [ simple |->
          [pre |-> "beautiful ",
           post |-> " with basic natural features, simple environmental elements, and peaceful setting"],
        medium |->
          [pre |-> "detailed ",
           post |-> " with natural textures, seasonal elements, wildlife touches, and environmental context"],
        detailed |->
          [pre |-> "intricate ",
           post |-> " with complex natural patterns, detailed ecosystem, weather effects, multiple layers of vegetation, and rich environmental detail"] ],
    vehicles |->
      [ simple |->
          [pre |-> "cool ",
           post |-> " with basic vehicle features, simple design elements, and clean lines"],
        medium |->
          [pre |-> "detailed ",
           post |-> " with mechanical features, environmental setting, motion elements, and contextual background"],
        detailed |->
          [pre |-> "intricate ",
           post |-> " with complex mechanical details, dynamic scene, environmental context, technical elements, and rich background details"] ],
    food |->
      [ simple |->
          [pre |-> "delicious ",
           post |-> " with basic food features, simple presentation, and appetizing appearance"],
        medium |->
          [pre |-> "detailed ",
           post |-> " with textures, garnishes, serving elements, and kitchen/dining context"],
        detailed |->
          [pre |-> "intricate ",
           post |-> " with complex textures, elaborate presentation, detailed ingredients, cooking elements, and rich culinary scene"] ],
    objects |->
      [ simple |->
          [pre |-> "useful ",
           post |-> " with basic design features, simple form, and clean presentation"],
        medium |->
          [pre |-> "detailed ",
           post |-> " with textures, functional elements, environmental setting, and contextual details"],
        detailed |->
          [pre |-> "intricate ",
           post |-> " with complex design patterns, detailed components, rich environmental context, and elaborate decorative elements"] ],
    sports |->
      [ simple |->
          [pre |-> "active ",
           post |-> " with basic sports elements, simple equipment, and dynamic pose"],
        medium |->
          [pre |-> "detailed ",
           post |-> " with sports equipment, playing field elements, action details, and athletic context"],
        detailed |->
          [pre |-> "intricate ",
           post |-> " with complex equipment details, detailed sports venue, crowd elements, dynamic action, and rich athletic environment"] ],
    holidays |->
      [ simple |->
          [pre |-> "festive ",
           post |-> " with basic holiday elements, simple decorations, and celebratory mood"],
        medium |->
          [pre |-> "detailed ",
           post |-> " with holiday decorations, seasonal elements, traditional motifs, and festive atmosphere"],
        detailed |->
          [pre |-> "intricate ",
           post |-> " with elaborate decorations, detailed traditional elements, complex patterns, celebratory scenes, and rich holiday atmosphere"] ],
    music |->
      [ simple |->
          [pre |-> "musical ",
           post |-> " with basic instrument features, simple musical elements, and harmonic design"],
        medium |->
          [pre |-> "detailed ",
           post |-> " with musical notes, performance setting, acoustic elements, and artistic details"],
        detailed |->
          [pre |-> "intricate ",
           post |-> " with complex musical patterns, detailed performance scene, ornate decorations, musical notation, and rich artistic environment"] ],
    mandalas |->
      [ simple |->
          [pre |-> "geometric ",
           post |-> " with basic symmetrical patterns, simple repetitive elements, and balanced design"],
        medium |->
          [pre |-> "detailed ",
           post |-> " with intricate geometric patterns, layered symmetry, decorative elements, and balanced complexity"],
        detailed |->
          [pre |-> "complex ",
           post |-> " with elaborate geometric designs, multiple pattern layers, sophisticated symmetrical elements, and rich decorative details"] ],
    abstract |->
      [ simple |->
          [pre |-> "artistic ",
           post |-> " with basic design elements, simple forms, and creative expression"],
        medium |->
          [pre |-> "detailed ",
           post |-> " with artistic patterns, creative elements, expressive forms, and design complexity"],
        detailed |->
          [pre |-> "intricate ",
           post |-> " with complex artistic patterns, elaborate design elements, sophisticated forms, and rich creative expression"] ],
    general |->
      [ simple |->
          [pre |-> "simple ",
           post |-> " with basic details and clear features"],
        medium |->
          [pre |-> "detailed ",
           post |-> " with enhanced features, textures, and contextual elements"],
        detailed |->
          [pre |-> "intricate ",
           post |-> " with complex details, rich context, and sophisticated elements"] ] ]

(***************************************************************************)
(* Classifier and template engine.                                         *)
(***************************************************************************)
\* matches.length for one category
Score(lowercaseInput, category) ==
  Len(SelectSeq(SubjectPatterns[category],
                LAMBDA pattern : Includes(lowercaseInput, pattern)))

\* BetterMatch with >= for >: on a tie the later category replaces the best
BetterMatchOnTie(bestMatch, category, score) ==
  IF score >= bestMatch.score
  THEN [category |-> category, score |-> score]
  ELSE bestMatch

\* one iteration of the loop over Object.entries(subjectPatterns)
BetterMatch(bestMatch, category, score) ==
  IF score > bestMatch.score
  THEN [category |-> category, score |-> score]
  ELSE bestMatch

\* bestMatch after the first n categories of the catalog
RECURSIVE BestMatchAfter(_, _)
BestMatchAfter(lowercaseInput, n) ==
  IF n = 0 THEN [category |-> "general", score |-> 0]
  ELSE BetterMatch(BestMatchAfter(lowercaseInput, n - 1),
                   CategoryOrder[n],
                   Score(lowercaseInput, CategoryOrder[n]))

\* detectSubjectCategory without the lower-casing of its input
detectSubjectCategoryCaseSensitive(input) ==
  BestMatchAfter(input, Len(CategoryOrder)).category

detectSubjectCategory(input) ==
  BestMatchAfter(ToLowerCase(input), Len(CategoryOrder)).category

AgeAdjustments ==
  [ kids |-> ", with friendly expressions, safe rounded features, bright cheerful elements, and child-appropriate simplicity",
    teens |-> ", with moderate detail, contemporary style elements, dynamic composition, and age-appropriate complexity",
    adults |-> ", with sophisticated details, complex patterns, artistic elements, intricate design, and mature aesthetic appeal" ]

getAgeAdjustment(ageGroup) ==
  IF ageGroup \in DOMAIN AgeAdjustments
  THEN AgeAdjustments[ageGroup]
  ELSE ", with balanced detail level and universal appeal"

\* enhanceDescription over templates that define no detailed variant
enhanceDescriptionNoDetailed(input, category, complexity, ageGroup) ==
  LET baseDescription == Trim(input)
      templates == IF category \in DOMAIN EnhancementTemplates
                   THEN EnhancementTemplates[category]
                   ELSE EnhancementTemplates["general"]
      enhancedBase == IF complexity \in DOMAIN templates \ {"detailed"}
                      THEN templates[complexity].pre \o baseDescription
                             \o templates[complexity].post
                      ELSE baseDescription
  IN  enhancedBase \o getAgeAdjustment(ageGroup)

enhanceDescription(input, category, complexity, ageGroup) ==
  LET baseDescription == Trim(input)
      templates == IF category \in DOMAIN EnhancementTemplates
                   THEN EnhancementTemplates[category]
                   ELSE EnhancementTemplates["general"]
      enhancedBase == IF complexity \in DOMAIN templates
                      THEN templates[complexity].pre \o baseDescription
                             \o templates[complexity].post
                      ELSE baseDescription
  IN  enhancedBase \o getAgeAdjustment(ageGroup)

\* applyColoringBookSpecs with the style constraints ahead of the restated
\* settings
applyColoringBookSpecsStyleFirst(description, config) ==
  Join(<< "professional black-and-white line art of",
          description,
          "coloring book style",
          "family-friendly content",
          "no shading or color fills",
          "clear distinct outlines",
          "high contrast black lines on white background",
          "300 DPI print quality",
          "optimized for " \o StringOf(config.complexity) \o " complexity level",
          "designed for " \o StringOf(config.ageGroup) \o " target audience",
          "featuring " \o StringOf(config.lineThickness) \o " line thickness",
          IF config.border = Str("with")
          THEN "with elegant decorative border elements"
          ELSE "with clean edges and no border",
          "suitable for coloring with crayons, markers, or colored pencils" >>,
       ", ")

\* config is the record of settings, each a JavaScript value
applyColoringBookSpecs(description, config) ==
  Join(<< "professional black-and-white line art of",
          description,
          "optimized for " \o StringOf(config.complexity) \o " complexity level",
          "designed for " \o StringOf(config.ageGroup) \o " target audience",
          "featuring " \o StringOf(config.lineThickness) \o " line thickness",
          IF config.border = Str("with")
          THEN "with elegant decorative border elements"
          ELSE "with clean edges and no border",
          "coloring book style",
          "family-friendly content",
          "no shading or color fills",
          "clear distinct outlines",
          "high contrast black lines on white background",
          "300 DPI print quality",
          "suitable for coloring with crayons, markers, or colored pencils" >>,
       ", ")

templateRefinement(input, config) ==
  applyColoringBookSpecs(
    enhanceDescription(input, detectSubjectCategory(input),
                       StringOf(config.complexity), StringOf(config.ageGroup)),
    config)

\* what gptRefinement returns when the completion service answered with content
GptRefined(content) ==
  Trim(content) \o ", black-and-white line art, coloring book style, family-friendly, no shading, clear outlines, 300 DPI, high contrast"

\* MakeConfig with thin lines as the default line thickness
MakeConfigThinDefault(validatedCustomizations) ==
  LET val(k) == IF k \in DOMAIN validatedCustomizations
                THEN validatedCustomizations[k] ELSE Undefined
  IN  [ complexity |-> OrElse(val("complexity"), Str("medium")),
        ageGroup |-> OrElse(val("ageGroup"), Str("kids")),
        lineThickness |-> OrElse(val("lineThickness"), Str("thin")),
        border |-> OrElse(val("border"), Str("with")),
        theme |-> OrElse(val("theme"), Null) ]

\* the settings of refinePrompt: validated values over the defaults
MakeConfig(validatedCustomizations) ==
  LET val(k) == IF k \in DOMAIN validatedCustomizations
                THEN validatedCustomizations[k] ELSE Undefined
  IN  [ complexity |-> OrElse(val("complexity"), Str("medium")),
        ageGroup |-> OrElse(val("ageGroup"), Str("kids")),
        lineThickness |-> OrElse(val("lineThickness"), Str("medium")),
        border |-> OrElse(val("border"), Str("with")),
        theme |-> OrElse(val("theme"), Null) ]

GenericFallbackPrompt ==
  "black-and-white line art coloring book page, family-friendly, no shading, 300 DPI"

\* createFallbackPrompt that embeds whatever it was given, text or not
createFallbackPromptEmbedsRaw(input, customizationsArg) ==
  LET customizations == DefaultParam(customizationsArg, ObjOf(NoProps))
      sanitizedInput == IF input.t = "string" THEN Trim(input.v) ELSE StringOf(input)
  IN  IF Nullish(customizations)
      THEN GenericFallbackPrompt
      ELSE LET complexity == OrElse(Get(customizations, "complexity"), Str("medium"))
               ageGroup == OrElse(Get(customizations, "ageGroup"), Str("kids"))
               lineThickness == OrElse(Get(customizations, "lineThickness"), Str("medium"))
               border == OrElse(Get(customizations, "border"), Str("with"))
           IN  "black-and-white line art of " \o sanitizedInput
                 \o ", " \o StringOf(complexity) \o " complexity"
                 \o ", " \o StringOf(ageGroup) \o " style"
                 \o ", " \o StringOf(lineThickness) \o " lines"
                 \o ", " \o (IF border = Str("with") THEN "with border" ELSE "no border")
                 \o ", coloring book style, family-friendly, no shading, 300 DPI"

createFallbackPrompt(input, customizationsArg) ==
  LET customizations == DefaultParam(customizationsArg, ObjOf(NoProps))
      sanitizedInput == IF input.t = "string" THEN Trim(input.v) ELSE "drawing"
  IN  IF Nullish(customizations)
      THEN GenericFallbackPrompt   \* reading a property of null throws; caught
      ELSE LET complexity == OrElse(Get(customizations, "complexity"), Str("medium"))
               ageGroup == OrElse(Get(customizations, "ageGroup"), Str("kids"))
               lineThickness == OrElse(Get(customizations, "lineThickness"), Str("medium"))
               border == OrElse(Get(customizations, "border"), Str("with"))
           IN  "black-and-white line art of " \o sanitizedInput
                 \o ", " \o StringOf(complexity) \o " complexity"
                 \o ", " \o StringOf(ageGroup) \o " style"
                 \o ", " \o StringOf(lineThickness) \o " lines"
                 \o ", " \o (IF border = Str("with") THEN "with border" ELSE "no border")
                 \o ", coloring book style, family-friendly, no shading, 300 DPI"

(***************************************************************************)
(* Deployment: process.env as read by the service.                         *)
(***************************************************************************)
MockKey == "sk-mock-key-for-testing"

\* "sk-".length
KeyPrefixLength == 3

\* the key the constructor gives to the OpenAI client
getApiKey(envKey) ==
  IF Truthy(envKey) /\ envKey # Str(MockKey)
       /\ envKey.t = "string" /\ SubSeq(envKey.v, 1, KeyPrefixLength) = "sk-"
  THEN envKey.v
  ELSE MockKey

(***************************************************************************)
(* Inputs of the model.                                                    *)
(***************************************************************************)
\* the longest text sanitizeText accepts, and a text one character too long
LongText == Repeat("x", MaxInputLength)

OverLongText == LongText \o "x"

\* pieces of the texts handed to sanitizeText called on its own
SanitizerVocabulary == {"zz", " ", "\t", "<", "'", LongText}

\* pieces of the texts handed to detectSubjectCategory called on its own
ClassifierVocabulary == {"Dog", "lion", "submarine", "cat", "erpillar", "zz", " "}

\* pieces of the texts handed to refinePrompt
RefineVocabulary == {"Dog", "Knife", "zz", " ", "<"}

\* the concatenations of at most n pieces of vocabulary
RECURSIVE TextsOf(_, _)
TextsOf(vocabulary, n) ==
  IF n = 0 THEN {""}
  ELSE TextsOf(vocabulary, n - 1)
         \cup {t \o w : t \in TextsOf(vocabulary, n - 1), w \in vocabulary}

\* pieces of the texts handed to checkFamilyFriendly called on its own: two
\* block-listed terms in mixed case, the halves of one, and harmless pieces
ModerationVocabulary == {"Knife", "gUn", "kni", "fe", "zz", " "}

ModerationInputs == TextsOf(ModerationVocabulary, MaxWords)

NonTextValues == {Undefined, Null, Num("42"), Num("0"), ObjOf(NoProps)}

SanitizerInputs ==
  {Str(t) : t \in TextsOf(SanitizerVocabulary, MaxWords)} \cup NonTextValues

ClassifierInputs == TextsOf(ClassifierVocabulary, MaxWords)

RefineInputs ==
  {Str(t) : t \in TextsOf(RefineVocabulary, MaxRefineWords)}
    \cup {Str(OverLongText)} \cup NonTextValues

\* values a caller puts in a field of the customizations object
SampleValues ==
  [ complexity |-> {Str("simple"), Str("detailed"), Str("extreme")},
    ageGroup |-> {Str("adults"), Str("toddlers")},
    lineThickness |-> {Str("thick"), Str("bold")},
    border |-> {Str("without"), Str("maybe")},
    theme |-> {Str("animals"), Str("space")},
    color |-> {Str("red")} ]

CustomizationObjects ==
  UNION { [S -> UNION {SampleValues[k] : k \in S}] : 
            S \in {T \in SUBSET (DOMAIN SampleValues) : Cardinality(T) <= MaxPrefFields} }

\* field values handed to validateCustomizations called on its own: one inside
\* an enumerated set (complexity, theme), one outside every set, and the falsy
\* values
ValidatorValues ==
  {Str("simple"), Str("animals"), Str("extreme"), Str(""), Num("0"), Bool(FALSE)}

ValidatorInputs ==
  {Undefined, Null, Num("7")} \cup
  { ObjOf(props) : props \in
      UNION { [S -> ValidatorValues] :
                S \in {T \in SUBSET (DOMAIN SampleValues) :
                         Cardinality(T) <= MaxValidatorFields} } }

\* preferences handed to createFallbackPrompt called on its own: absent, null,
\* non-objects, and objects with in-set, out-of-set and falsy values
FallbackPreferences ==
  { Undefined, Null, Num("7"), Str("thick"), ObjOf(NoProps),
    ObjOf([complexity |-> Str("detailed")]), ObjOf([complexity |-> Str("extreme")]),
    ObjOf([border |-> Str("without")]), ObjOf([lineThickness |-> Num("0")]) }

\* arguments of enhanceDescription called on its own: every category
\* detectSubjectCategory can return, the validated complexities and age groups
DetectableCategories ==
  {CategoryOrder[i] : i \in 1..Len(CategoryOrder)} \cup {"general"}

Complexities == ValidValues["complexity"]

AgeGroups == ValidValues["ageGroup"]

SubjectTexts == {"Dog", "zz top"}

CustomizationArgs ==
  {Undefined, Null, Num("7")}
    \cup {ObjOf(p) : p \in {q \in CustomizationObjects :
                              \A k \in DOMAIN q : q[k] \in SampleValues[k]}}

OptionsArgs ==
  {Undefined, Null, ObjOf([useGPT |-> Bool(TRUE)]), ObjOf([useGPT |-> Bool(FALSE)])}

\* message.content of a completion
CompletionContents == {" a friendly dog, line drawing ", "Knife"}

\* ways the completion call fails inside gptRefinement's try block
CompletionFailures == {"throws", "no choices"}

NodeEnvs == {"development", "production"}

EnvKeys == {Str(MockKey), Str("sk-live-key")}

(***************************************************************************)
(* State.                                                                  *)
(***************************************************************************)
VARIABLES
  nodeEnv,        \* process.env.NODE_ENV
  apiKey,         \* key of the OpenAI client built by the constructor
  pc,             \* where the current call stands
  userInput, customizations, options,      \* parameters of refinePrompt
  sanitizedInput, validatedCustomizations, config, refinedPrompt, method,
  error,          \* the error bound by a catch clause of refinePrompt
  inGptCatch,     \* templateRefinement runs inside gptRefinement's catch clause
  steps,          \* the functions entered by this call, in order
  result,         \* the object the promise of refinePrompt resolved with
  unit,           \* a sanitizer or classifier function called on its own
  http,           \* the request an /api route is handling, and its response
  calls,          \* the refinePrompt calls in flight together, by call number
  store,          \* the user_images collection: owner of each document id
  request,        \* the request the gallery router is handling, and its response
  form            \* state of the form component and of its handleGenerate run

vars == << nodeEnv, apiKey, pc, userInput, customizations, options, sanitizedInput,
           validatedCustomizations, config, refinedPrompt, method, error, inGptCatch,
           steps, result, unit, http, calls, store, request, form >>

callVars == << userInput, customizations, options >>

localVars == << sanitizedInput, validatedCustomizations, config, refinedPrompt,
                method, inGptCatch >>

envVars == << nodeEnv, apiKey >>

\* what lies outside the one refinePrompt call followed step by step
outsideVars == << calls, http, store, request, form >>

\* the gallery router and the form component
clientVars == << store, request, form >>

\* no request has reached the server
NoRequest ==
  [ phase |-> "idle", route |-> "", prompt |-> Undefined, customizations |-> Undefined,
    user |-> FALSE, errors |-> {}, refinement |-> NoProps, calls |-> << >>,
    status |-> 0, success |-> FALSE, mock |-> FALSE ]

\* no completion call has settled
NoOutcome == [kind |-> "none", content |-> ""]

\* a call that has not started
IdleCall ==
  [ phase |-> "idle", userInput |-> Undefined, customizations |-> Undefined,
    options |-> Undefined, sanitizedInput |-> "", config |-> NoProps,
    refinedPrompt |-> "", method |-> "", response |-> NoOutcome,
    result |-> NoProps ]

\* document ids generated by the store, in the order it hands them out
IdNames == << "a", "b", "c", "d" >>

DocIds == {IdNames[n] : n \in 1..MaxImages}

\* no request has reached the gallery router
NoGalleryRequest ==
  [ phase |-> "idle", route |-> "", header |-> "", imageIds |-> << >>,
    idToken |-> "", verdict |-> "", user |-> "", ran |-> FALSE, seen |-> << >>,
    batch |-> {}, added |-> {}, removed |-> {}, status |-> 0 ]

\* the useState initial values of the form component
InitialForm ==
  [ formData |-> [prompt |-> "", complexity |-> "", ageGroup |-> "", lineThickness |-> ""],
    validation |-> [prompt |-> FALSE, complexity |-> FALSE, ageGroup |-> FALSE,
                    lineThickness |-> FALSE],
    isGenerating |-> FALSE, showModal |-> FALSE, showErrorModal |-> FALSE,
    generatedImage |-> FALSE, error |-> FALSE,
    run |-> "none", outcome |-> "", opened |-> {} ]

NoUnit == [fn |-> "none"]

Init ==
  /\ nodeEnv \in NodeEnvs
  /\ apiKey \in {getApiKey(k) : k \in EnvKeys}
  /\ pc = "idle"
  /\ userInput = Undefined
  /\ customizations = Undefined
  /\ options = Undefined
  /\ sanitizedInput = ""
  /\ validatedCustomizations = NoProps
  /\ config = NoProps
  /\ refinedPrompt = ""
  /\ method = ""
  /\ error = ""
  /\ inGptCatch = FALSE
  /\ steps = << >>
  /\ result = NoProps
  /\ unit = NoUnit
  /\ calls = [i \in 1..MaxCalls |-> IdleCall]
  /\ http = NoRequest
  /\ store = [id \in DocIds |-> "unused"]
  /\ request = NoGalleryRequest
  /\ form = InitialForm

(***************************************************************************)
(* refinePrompt(userInput, customizations = {}, options = {}).             *)
(***************************************************************************)
\* the call: parameters are bound, with their defaults
RefinePrompt(u, c, o) ==
  /\ pc = "idle"
  /\ userInput' = u
  /\ customizations' = DefaultParam(c, ObjOf(NoProps))
  /\ options' = DefaultParam(o, ObjOf(NoProps))
  /\ pc' = "sanitizeText"
  /\ UNCHANGED << envVars, outsideVars, localVars, error, steps, result, unit >>

\* an exception reaches the catch clause of refinePrompt
Caught(msg) ==
  /\ error' = msg
  /\ pc' = "catch"

DoSanitizeText ==
  /\ pc = "sanitizeText"
  /\ steps' = Append(steps, "sanitizeText")
  /\ LET r == sanitizeText(userInput)
     IN  IF r.ok
         THEN /\ sanitizedInput' = r.v
              /\ pc' = "validateCustomizations"
              /\ UNCHANGED error
         ELSE /\ Caught(r.err)
              /\ UNCHANGED sanitizedInput
  /\ UNCHANGED << envVars, outsideVars, callVars, validatedCustomizations, config, refinedPrompt,
                  method, inGptCatch, result, unit >>

\* DoValidateCustomizations with the failure swallowed: the call goes on with
\* no validated preference
DoValidateCustomizationsSwallowed ==
  /\ pc = "validateCustomizations"
  /\ steps' = Append(steps, "validateCustomizations")
  /\ validatedCustomizations' =
       IF validateCustomizations(customizations).ok
       THEN validateCustomizations(customizations).v ELSE NoProps
  /\ pc' = "checkFamilyFriendly"
  /\ UNCHANGED << envVars, outsideVars, callVars, sanitizedInput, config, refinedPrompt,
                  method, error, inGptCatch, result, unit >>

DoValidateCustomizations ==
  /\ pc = "validateCustomizations"
  /\ steps' = Append(steps, "validateCustomizations")
  /\ LET r == validateCustomizations(customizations)
     IN  IF r.ok
         THEN /\ validatedCustomizations' = r.v
              /\ pc' = "checkFamilyFriendly"
              /\ UNCHANGED error
         ELSE /\ Caught(r.err)
              /\ UNCHANGED validatedCustomizations
  /\ UNCHANGED << envVars, outsideVars, callVars, sanitizedInput, config, refinedPrompt,
                  method, inGptCatch, result, unit >>

DoCheckFamilyFriendly ==
  /\ pc = "checkFamilyFriendly"
  /\ steps' = Append(steps, "checkFamilyFriendly")
  /\ LET r == checkFamilyFriendly(sanitizedInput)
     IN  IF r.ok
         THEN /\ pc' = "configure"
              /\ UNCHANGED error
         ELSE Caught(r.err)
  /\ UNCHANGED << envVars, outsideVars, callVars, localVars, result, unit >>

\* options.useGPT && process.env.NODE_ENV !== 'development'
UseGpt(opts, env) == Truthy(Get(opts, "useGPT")) /\ env # "development"

\* the defaults are applied and the refinement method is chosen
Configure ==
  /\ pc = "configure"
  /\ config' = MakeConfig(validatedCustomizations)
  /\ method' = "template-based"
  /\ IF Nullish(options)
     THEN Caught("Cannot read properties of null (reading 'useGPT')")
     ELSE /\ pc' = IF UseGpt(options, nodeEnv) THEN "gptRefinement"
                   ELSE "templateRefinement"
          /\ UNCHANGED error
  /\ UNCHANGED << envVars, outsideVars, callVars, sanitizedInput, validatedCustomizations,
                  refinedPrompt, inGptCatch, steps, result, unit >>

\* gptRefinement: the completion service answers with content
CompletionReturns(content) ==
  /\ pc = "gptRefinement"
  /\ steps' = steps \o << "gptRefinement", "completions.create" >>
  /\ refinedPrompt' = GptRefined(content)
  /\ method' = "gpt-enhanced"
  /\ pc' = "assemble"
  /\ UNCHANGED << envVars, outsideVars, callVars, sanitizedInput, validatedCustomizations, config,
                  error, inGptCatch, result, unit >>

\* gptRefinement: the completion service never answers. The client is built
\* from the key alone and the call passes no timeout or abort signal, so the
\* await has no step of this code that ends it.
CompletionNeverResponds ==
  /\ pc = "gptRefinement"
  /\ steps' = steps \o << "gptRefinement", "completions.create" >>
  /\ pc' = "awaitCompletion"
  /\ UNCHANGED << envVars, outsideVars, callVars, localVars, error, result, unit >>

\* CompletionFails without gptRefinement's catch clause: the failure reaches
\* the catch clause of refinePrompt
CompletionFailsPropagated(failure) ==
  /\ pc = "gptRefinement"
  /\ steps' = steps \o << "gptRefinement", "completions.create" >>
  /\ Caught("completion failed: " \o failure)
  /\ UNCHANGED << envVars, outsideVars, callVars, localVars, result, unit >>

\* gptRefinement: the completion call fails; its catch clause takes over
CompletionFails(failure) ==
  /\ pc = "gptRefinement"
  /\ steps' = steps \o << "gptRefinement", "completions.create" >>
  /\ inGptCatch' = TRUE
  /\ pc' = "templateRefinement"
  /\ UNCHANGED << envVars, outsideVars, callVars, sanitizedInput, validatedCustomizations, config,
                  refinedPrompt, method, error, result, unit >>

\* method after the refinement returned to refinePrompt: the assignment that
\* follows the call of gptRefinement runs however gptRefinement got its value
MethodAfter(viaGpt, current) == IF viaGpt THEN "gpt-enhanced" ELSE current

TemplateRefinement ==
  /\ pc = "templateRefinement"
  /\ steps' = steps \o << "templateRefinement", "detectSubjectCategory",
                          "enhanceDescription", "applyColoringBookSpecs" >>
  /\ refinedPrompt' = templateRefinement(sanitizedInput, config)
  /\ method' = MethodAfter(inGptCatch, method)
  /\ pc' = "assemble"
  /\ UNCHANGED << envVars, outsideVars, callVars, sanitizedInput, validatedCustomizations, config,
                  error, inGptCatch, result, unit >>

\* new Date().toISOString() at the return statement; the clock is not modelled
Timestamp == "1970-01-01T00:00:00.000Z"

\* SuccessResult that detects the reported category without lower-casing
SuccessResultOtherDetection(prompt, input, settings, m) ==
  [ success |-> TRUE,
    refinedPrompt |-> prompt,
    originalInput |-> Str(input),
    detectedCategory |-> detectSubjectCategoryCaseSensitive(input),
    appliedSettings |-> settings,
    metadata |-> [method |-> m, sanitized |-> TRUE, familyFriendly |-> TRUE],
    timestamp |-> Timestamp ]

SuccessResult(prompt, input, settings, m) ==
  [ success |-> TRUE,
    refinedPrompt |-> prompt,
    originalInput |-> Str(input),
    detectedCategory |-> detectSubjectCategory(input),
    appliedSettings |-> settings,
    metadata |-> [method |-> m, sanitized |-> TRUE, familyFriendly |-> TRUE],
    timestamp |-> Timestamp ]

Assemble ==
  /\ pc = "assemble"
  /\ steps' = Append(steps, "detectSubjectCategory")
  /\ result' = SuccessResult(refinedPrompt, sanitizedInput, config, method)
  /\ pc' = "returned"
  /\ UNCHANGED << envVars, outsideVars, callVars, localVars, error, unit >>

\* FallbackResult that records a fixed text in place of the caught message
FallbackResultGenericError(input, prefs, msg) ==
  [ success |-> FALSE,
    refinedPrompt |-> createFallbackPrompt(input, prefs),
    originalInput |-> input,
    error |-> "Prompt refinement failed",
    metadata |-> [method |-> "fallback", sanitized |-> FALSE],
    timestamp |-> Timestamp ]

FallbackResult(input, prefs, msg) ==
  [ success |-> FALSE,
    refinedPrompt |-> createFallbackPrompt(input, prefs),
    originalInput |-> input,
    error |-> msg,
    metadata |-> [method |-> "fallback", sanitized |-> FALSE],
    timestamp |-> Timestamp ]

\* the catch clause: the log record is built first, then the fallback result
CatchThrows(input) == OptionalSubstringThrows(input)

Catch ==
  /\ pc = "catch"
  /\ IF CatchThrows(userInput)
     THEN /\ error' = "userInput?.substring is not a function"
          /\ pc' = "rejected"
          /\ UNCHANGED << steps, result >>
     ELSE /\ steps' = Append(steps, "createFallbackPrompt")
          /\ result' = FallbackResult(userInput, customizations, error)
          /\ pc' = "returned"
          /\ UNCHANGED error
  /\ UNCHANGED << envVars, outsideVars, callVars, localVars, unit >>

(***************************************************************************)
(* The sanitizer and the classifier called on their own (TestingExports).  *)
(***************************************************************************)
CallSanitizeText(x) ==
  /\ pc = "idle"
  /\ unit = NoUnit
  /\ unit' = [fn |-> "sanitizeText", arg |-> x, out |-> sanitizeText(x)]
  /\ UNCHANGED << envVars, outsideVars, pc, callVars, localVars, error, steps, result >>

\* the text sanitizeText returned is sanitized once more
CallSanitizeTextAgain ==
  /\ unit.fn = "sanitizeText"
  /\ unit.out.ok
  /\ unit' = [fn |-> "sanitizeText twice", arg |-> unit.arg, out |-> unit.out,
              again |-> sanitizeText(Str(unit.out.v))]
  /\ UNCHANGED << envVars, outsideVars, pc, callVars, localVars, error, steps, result >>

CallDetectSubjectCategory(s) ==
  /\ pc = "idle"
  /\ unit = NoUnit
  /\ unit' = [fn |-> "detectSubjectCategory", arg |-> s, out |-> detectSubjectCategory(s)]
  /\ UNCHANGED << envVars, outsideVars, pc, callVars, localVars, error, steps, result >>

CallCheckFamilyFriendly(s) ==
  /\ pc = "idle"
  /\ unit = NoUnit
  /\ unit' = [fn |-> "checkFamilyFriendly", arg |-> s, out |-> checkFamilyFriendly(s)]
  /\ UNCHANGED << envVars, outsideVars, pc, callVars, localVars, error, steps, result >>

CallCreateFallbackPrompt(x, c) ==
  /\ pc = "idle"
  /\ unit = NoUnit
  /\ unit' = [fn |-> "createFallbackPrompt", input |-> x, prefs |-> c,
              out |-> createFallbackPrompt(x, c)]
  /\ UNCHANGED << envVars, outsideVars, pc, callVars, localVars, error, steps, result >>

CallEnhanceDescription(s, category, complexity, ageGroup) ==
  /\ pc = "idle"
  /\ unit = NoUnit
  /\ unit' = [fn |-> "enhanceDescription", arg |-> s, category |-> category,
              complexity |-> complexity, ageGroup |-> ageGroup,
              out |-> enhanceDescription(s, category, complexity, ageGroup)]
  /\ UNCHANGED << envVars, outsideVars, pc, callVars, localVars, error, steps, result >>

CallValidateCustomizations(c) ==
  /\ pc = "idle"
  /\ unit = NoUnit
  /\ unit' = [fn |-> "validateCustomizations", arg |-> c,
              out |-> validateCustomizations(c)]
  /\ UNCHANGED << envVars, outsideVars, pc, callVars, localVars, error, steps, result >>

(***************************************************************************)
(* Several refinePrompt calls on the singleton.  A call runs without        *)
(* interruption between its awaits: up to the await of the completion call *)
(* or of templateRefinement's promise, and from there on; its const and    *)
(* let bindings are its own.                                                *)
(***************************************************************************)
ConcurrentInputs == {Str("Dog"), Str("Knife"), Num("42")}

ConcurrentCustomizations == {Undefined, ObjOf([complexity |-> Str("detailed")])}

ConcurrentOptions == {Undefined, ObjOf([useGPT |-> Bool(TRUE)])}

\* what the completion call settles with
CompletionOutcomes ==
  {[kind |-> "content", content |-> c] : c \in CompletionContents}
    \cup {[kind |-> "failure", content |-> f] : f \in CompletionFailures}

\* the message caught by refinePrompt before any refinement, "" when none
CaughtBeforeRefinement(u, c, o) ==
  IF ~sanitizeText(u).ok THEN sanitizeText(u).err
  ELSE IF ~validateCustomizations(c).ok THEN validateCustomizations(c).err
  ELSE IF ~checkFamilyFriendly(sanitizeText(u).v).ok
       THEN checkFamilyFriendly(sanitizeText(u).v).err
  ELSE IF Nullish(o) THEN "Cannot read properties of null (reading 'useGPT')"
  ELSE ""

\* how a refinePrompt call ends when it is the only call on the service: the
\* whole of refinePrompt applied to its arguments, the environment and the way
\* its completion call (if any) settles
refinePromptAlone(u, c, o, env, outcome) ==
  LET cu == DefaultParam(c, ObjOf(NoProps))
      op == DefaultParam(o, ObjOf(NoProps))
      msg == CaughtBeforeRefinement(u, cu, op)
      sanitized == sanitizeText(u).v
      cfg == MakeConfig(validateCustomizations(cu).v)
  IN  IF msg # ""
      THEN IF CatchThrows(u)
           THEN [phase |-> "rejected", result |-> NoProps]
           ELSE [phase |-> "returned", result |-> FallbackResult(u, cu, msg)]
      ELSE [ phase |-> "returned",
             result |->
               SuccessResult(
                 IF UseGpt(op, env) /\ outcome.kind = "content"
                 THEN GptRefined(outcome.content)
                 ELSE templateRefinement(sanitized, cfg),
                 sanitized, cfg,
                 IF UseGpt(op, env) THEN "gpt-enhanced" ELSE "template-based") ]

\* from the call to its first await, or to the return from the catch clause
StartCall(i, u, c, o) ==
  /\ calls[i].phase = "idle"
  /\ LET cu == DefaultParam(c, ObjOf(NoProps))
         op == DefaultParam(o, ObjOf(NoProps))
         bound == [calls[i] EXCEPT !.userInput = u, !.customizations = cu,
                                   !.options = op]
         msg == CaughtBeforeRefinement(u, cu, op)
         sanitized == sanitizeText(u).v
         cfg == MakeConfig(validateCustomizations(cu).v)
     IN  calls' = [calls EXCEPT ![i] =
           IF msg # ""
           THEN IF CatchThrows(u)
                THEN [bound EXCEPT !.phase = "rejected"]
                ELSE [bound EXCEPT !.phase = "returned",
                                   !.result = FallbackResult(u, cu, msg)]
           ELSE IF UseGpt(op, nodeEnv)
                THEN [bound EXCEPT !.phase = "awaiting", !.sanitizedInput = sanitized,
                                   !.config = cfg, !.method = "template-based"]
                ELSE [bound EXCEPT !.phase = "settled", !.sanitizedInput = sanitized,
                                   !.config = cfg, !.method = "template-based",
                                   !.refinedPrompt = templateRefinement(sanitized, cfg)]]
  /\ UNCHANGED << envVars, pc, callVars, localVars, error, steps, result, unit, http, clientVars >>

\* ResumeCall reading the bindings of another suspended call, as if they were
\* fields of the service object
ResumeCallSharedBindings(i, outcome) ==
  /\ calls[i].phase = "awaiting"
  /\ LET others == {j \in DOMAIN calls : j # i /\ calls[j].phase = "awaiting"}
         j == IF others = {} THEN i ELSE CHOOSE k \in others : TRUE
     IN  calls' = [calls EXCEPT ![i] =
           [@ EXCEPT !.phase = "settled", !.response = outcome,
                     !.refinedPrompt =
                       IF outcome.kind = "content" THEN GptRefined(outcome.content)
                       ELSE templateRefinement(calls[j].sanitizedInput, calls[j].config)]]
  /\ UNCHANGED << envVars, pc, callVars, localVars, error, steps, result, unit, http, clientVars >>

\* the completion call settles: gptRefinement builds its string, in its try
\* block or in its catch clause
ResumeCall(i, outcome) ==
  /\ calls[i].phase = "awaiting"
  /\ calls' = [calls EXCEPT ![i] =
       [@ EXCEPT !.phase = "settled", !.response = outcome,
                 !.refinedPrompt =
                   IF outcome.kind = "content" THEN GptRefined(outcome.content)
                   ELSE templateRefinement(calls[i].sanitizedInput, calls[i].config)]]
  /\ UNCHANGED << envVars, pc, callVars, localVars, error, steps, result, unit, http, clientVars >>

\* the awaited refinement has settled: refinePrompt goes on to its return
FinishCall(i) ==
  /\ calls[i].phase = "settled"
  /\ calls' = [calls EXCEPT ![i] =
       [@ EXCEPT !.phase = "returned",
                 !.method = MethodAfter(calls[i].response.kind # "none", @),
                 !.result = SuccessResult(
                             calls[i].refinedPrompt, calls[i].sanitizedInput,
                             calls[i].config,
                             MethodAfter(calls[i].response.kind # "none",
                                         calls[i].method))]]
  /\ UNCHANGED << envVars, pc, callVars, localVars, error, steps, result, unit, http, clientVars >>

NextConcurrent ==
  \/ \E i \in DOMAIN calls :
       /\ calls[i].phase = "idle"
       /\ \E u \in ConcurrentInputs, c \in ConcurrentCustomizations,
             o \in ConcurrentOptions : StartCall(i, u, c, o)
  \/ \E i \in DOMAIN calls, outcome \in CompletionOutcomes : ResumeCall(i, outcome)
  \/ \E i \in DOMAIN calls : FinishCall(i)

SpecConcurrent == Init /\ [][NextConcurrent]_vars

(***************************************************************************)
(* The /api routes of the server: POST /api/refine-prompt and POST         *)
(* /api/generate behind the validateGenerateRequest chain.                  *)
(***************************************************************************)
\* a JavaScript array, by the string its elements join to
Arr(s) == [t |-> "array", v |-> s, p |-> NoProps]

\* the block list of the server's content filter
RouteInappropriateKeywords ==
  { "violence", "blood", "weapon", "gun", "knife", "death", "kill",
    "sexual", "nude", "naked", "adult", "explicit", "inappropriate",
    "drug", "alcohol", "beer", "wine", "cigarette", "smoking",
    "scary", "horror", "demon", "devil", "evil", "dark magic" }

isContentAppropriate(text) ==
  ~\E keyword \in RouteInappropriateKeywords : Includes(ToLowerCase(text), keyword)

\* the values .isIn accepts for each customizations field of the request
RouteValidValues ==
  [ complexity |-> {"simple", "medium", "detailed"},
    ageGroup |-> {"kids", "teens", "adults"},
    lineThickness |-> {"thin", "medium", "thick"},
    border |-> {"with", "without"},
    theme |-> {"animals", "mandalas", "fantasy", "nature"} ]

RouteMessage ==
  [ complexity |-> "Complexity must be simple, medium, or detailed",
    ageGroup |-> "Age group must be kids, teens, or adults",
    lineThickness |-> "Line thickness must be thin, medium, or thick",
    border |-> "Border must be with or without",
    theme |-> "Theme must be animals, mandalas, fantasy, or nature" ]

\* req.body.prompt after .trim(): the validator stringifies a scalar before
\* trimming it; an absent field stays absent or becomes the empty string, and
\* an array is trimmed element by element or stringified as a whole, depending
\* on the validator library, which is not part of this source
TrimmedPrompts(prompt) ==
  CASE prompt.t = "undefined" -> {Undefined, Str("")}
    [] prompt.t = "array" -> {prompt, Str(Trim(prompt.v))}
    [] OTHER -> {Str(Trim(StringOf(prompt)))}

\* the errors of the prompt chain: length, then the content filter, which
\* throws on a value without toLowerCase
PromptErrors(prompt) ==
  IF prompt.t = "array" THEN {"text.toLowerCase is not a function"}
  ELSE LET text == IF prompt.t = "string" THEN prompt.v ELSE ""
       IN  (IF Len(text) < 1 \/ Len(text) > MaxInputLength
            THEN {"Prompt must be between 1 and 500 characters"} ELSE {})
             \cup (IF isContentAppropriate(text) THEN {}
                   ELSE {"Content must be family-friendly"})

\* the errors of the five optional customizations chains
CustomizationErrors(customizationsOfBody) ==
  { RouteMessage[k] : k \in
      { f \in DOMAIN RouteValidValues :
          /\ Get(customizationsOfBody, f) # Undefined
          /\ StringOf(Get(customizationsOfBody, f)) \notin RouteValidValues[f] } }

RoutePrompts ==
  { Undefined, Str("Dog"), Str(" Dog "), Str("   "), Str("Knife"), Str("murder"),
    Str(OverLongText), Num("42"), Arr("Dog"), Arr("") }

RouteCustomizations ==
  { Undefined, Null, ObjOf([complexity |-> Str("detailed")]),
    ObjOf([complexity |-> Str("extreme")]), ObjOf([theme |-> Str("food")]),
    ObjOf([border |-> Str("")]) }

Routes == {"/api/refine-prompt", "/api/generate"}

\* what openai.images.generate settles with: an image, or an error status
ImageOutcomes == {200, 429, 400, 500}

\* the request passes the validateGenerateRequest chain and reaches the handler
ReceiveRequest(route, prompt, customizationsOfBody, user) ==
  /\ http.phase = "idle"
  /\ \E trimmed \in TrimmedPrompts(prompt) :
       http' = [http EXCEPT !.phase = "handler", !.route = route, !.prompt = trimmed,
                            !.customizations = customizationsOfBody, !.user = user,
                            !.errors = PromptErrors(trimmed)
                                         \cup CustomizationErrors(customizationsOfBody)]
  /\ UNCHANGED << envVars, pc, callVars, localVars, error, steps, result, unit, calls, clientVars >>

\* !errors.isEmpty(): the warning is logged and 400 is sent. The log record
\* reads req.body.prompt?.substring, which throws on an array; the catch
\* clause reads it again for its own log record and throws out of the handler:
\* the promise of the handler rejects, and the request is left unanswered or
\* is answered 500 by the error middleware, depending on the Express version
RejectInvalid ==
  /\ http.phase = "handler"
  /\ http.errors # {}
  /\ IF OptionalSubstringThrows(http.prompt)
     THEN \/ http' = [http EXCEPT !.phase = "unanswered"]
          \/ http' = [http EXCEPT !.phase = "responded", !.status = 500]
     ELSE http' = [http EXCEPT !.phase = "responded", !.status = 400]
  /\ UNCHANGED << envVars, pc, callVars, localVars, error, steps, result, unit, calls, clientVars >>

\* await promptRefinementService.refinePrompt(prompt, customizations)
RefineForRoute ==
  /\ http.phase = "handler"
  /\ http.errors = {}
  /\ LET outcome == refinePromptAlone(http.prompt, http.customizations, Undefined,
                                      nodeEnv, NoOutcome)
     IN  http' = IF outcome.phase = "rejected"
                 THEN [http EXCEPT !.phase = "responded", !.status = 500,
                                   !.calls = Append(@, "refinePrompt")]
                 ELSE [http EXCEPT !.phase = "refined", !.refinement = outcome.result,
                                   !.calls = Append(@, "refinePrompt")]
  /\ UNCHANGED << envVars, pc, callVars, localVars, error, steps, result, unit, calls, clientVars >>

\* /api/refine-prompt answers with the refinement
RespondRefinement ==
  /\ http.phase = "refined"
  /\ http.route = "/api/refine-prompt"
  /\ http' = [http EXCEPT !.phase = "responded", !.status = 200,
                          !.success = http.refinement.success]
  /\ UNCHANGED << envVars, pc, callVars, localVars, error, steps, result, unit, calls, clientVars >>

\* isDevelopment with its test inverted
isDevelopmentInverted(env) == env # "development"

\* isDevelopment = process.env.NODE_ENV === 'development'
isDevelopment(env) == env = "development"

\* /api/generate in development: the mock image, saved for a signed-in user
GenerateMock ==
  /\ http.phase = "refined"
  /\ http.route = "/api/generate"
  /\ isDevelopment(nodeEnv)
  /\ http' = [http EXCEPT !.phase = "responded", !.status = 200, !.success = TRUE,
                          !.mock = TRUE,
                          !.calls = IF http.user THEN Append(@, "saveToGallery") ELSE @]
  /\ UNCHANGED << envVars, pc, callVars, localVars, error, steps, result, unit, calls, clientVars >>

\* /api/generate otherwise: openai.images.generate, then the gallery, or the
\* catch clause with the status of the error
GenerateImage(outcome) ==
  /\ http.phase = "refined"
  /\ http.route = "/api/generate"
  /\ ~isDevelopment(nodeEnv)
  /\ http' = IF outcome = 200
             THEN [http EXCEPT !.phase = "responded", !.status = 200, !.success = TRUE,
                               !.calls = @ \o << "images.generate" >>
                                           \o (IF http.user THEN << "saveToGallery" >>
                                               ELSE << >>)]
             ELSE [http EXCEPT !.phase = "responded", !.status = outcome,
                               !.calls = Append(@, "images.generate")]
  /\ UNCHANGED << envVars, pc, callVars, localVars, error, steps, result, unit, calls, clientVars >>

NextRoutes ==
  \/ /\ http.phase = "idle"
     /\ \E route \in Routes, prompt \in RoutePrompts,
           customizationsOfBody \in RouteCustomizations, user \in BOOLEAN :
          ReceiveRequest(route, prompt, customizationsOfBody, user)
  \/ RejectInvalid
  \/ RefineForRoute
  \/ RespondRefinement
  \/ GenerateMock
  \/ \E outcome \in ImageOutcomes : GenerateImage(outcome)

SpecRoutes == Init /\ [][NextRoutes]_vars

(***************************************************************************)
(* The gallery router (server/routes/auth.js): verifyToken, then the route *)
(* handler, one request at a time; requests of other clients that are in   *)
(* flight at the same time show as their writes to the collection.         *)
(***************************************************************************)
Users == {"u1", "u2"}

\* the uid in the ID tokens the verifier can decode
TokenUids == [token \in {"tok-u1", "tok-u2"} |-> IF token = "tok-u1" THEN "u1" ELSE "u2"]

\* Authorization headers; "" is a request without the header
AuthHeaders ==
  {"", "Basic tok-u1", "Bearer tok-u1", "Bearer tok-u2", "Bearer forged",
   "Bearer tok-u1 Bearer tok-u2"}

GalleryRoutes == {"save-image", "get-gallery", "delete-image", "delete-bulk", "auth-status"}

\* ids a request can name: those of documents and one of no document
RequestedIds == DocIds \cup {"ghost"}

RECURSIVE SeqsUpTo(_, _)
SeqsUpTo(S, n) ==
  IF n = 0 THEN {<< >>}
  ELSE LET shorter == SeqsUpTo(S, n - 1)
       IN  shorter \cup {Append(q, x) : q \in {t \in shorter : Len(t) = n - 1}, x \in S}

\* req.params.imageId, or req.body.imageIds
RequestBodies(route) ==
  CASE route = "delete-image" -> {<< id >> : id \in RequestedIds}
    [] route = "delete-bulk" -> SeqsUpTo(RequestedIds, MaxBatch)
    [] OTHER -> {<< >>}

\* the store answers, or the call to it fails
StoreOutcomes == {"ok", "unavailable"}

\* authHeader.split('Bearer ')[1] of a header that starts with 'Bearer '
SecondPart(authHeader) ==
  LET rest == SubSeq(authHeader, 8, Len(authHeader))
      cuts == {i \in 1..Len(rest) : StartsWith(SubSeq(rest, i, Len(rest)), "Bearer ")}
  IN  IF cuts = {} THEN rest
      ELSE SubSeq(rest, 1, (CHOOSE i \in cuts : \A j \in cuts : i <= j) - 1)

\* admin.auth().verifyIdToken(idToken): the uid of the decoded token, or a
\* rejection (expired, revoked, malformed, or the verifier unavailable)
VerifierOutcomesTrusting(idToken) ==
  {"u1", "rejected"}

VerifierOutcomes(idToken) ==
  IF idToken \in DOMAIN TokenUids THEN {TokenUids[idToken], "rejected"} ELSE {"rejected"}

\* the next document id db.collection('user_images').add() hands out
FreeIds == {n \in 1..MaxImages : store[IdNames[n]] = "unused"}

NextDocId == IdNames[CHOOSE n \in FreeIds : \A m \in FreeIds : n <= m]

\* imageDoc.exists and imageData.userId of a document snapshot
Snapshot(id) ==
  IF id \in DocIds /\ store[id] \in Users THEN store[id] ELSE "missing"

\* the collection after the documents ids are deleted
Deleted(ids) ==
  [id \in DocIds |-> IF id \in ids /\ store[id] \in Users THEN "deleted" ELSE store[id]]

Respond(status) == [request EXCEPT !.phase = "responded", !.status = status]

ReceiveGalleryRequest(route, header, imageIds) ==
  /\ request.phase = "idle"
  /\ request' = [NoGalleryRequest EXCEPT !.phase = "verifyToken", !.route = route,
                                         !.header = header, !.imageIds = imageIds]
  /\ UNCHANGED << envVars, pc, callVars, localVars, error, steps, result, unit,
                  calls, http, store, form >>

\* verifyToken: 401 without a Bearer header or when the verifier rejects
\* the token, otherwise req.user is set and next() runs the route
VerifyToken(verdict) ==
  /\ request.phase = "verifyToken"
  /\ IF request.header = "" \/ ~StartsWith(request.header, "Bearer ")
     THEN request' = Respond(401)
     ELSE LET idToken == SecondPart(request.header)
          IN  /\ verdict \in VerifierOutcomes(idToken)
              /\ request' =
                   IF verdict = "rejected"
                   THEN [Respond(401) EXCEPT !.idToken = idToken, !.verdict = verdict]
                   ELSE [request EXCEPT !.phase = "handler", !.idToken = idToken,
                                        !.verdict = verdict, !.user = verdict]
  /\ UNCHANGED << envVars, pc, callVars, localVars, error, steps, result, unit,
                  calls, http, store, form >>

\* POST /save-image: 400 on a validation error, else the document is added
SaveImage(valid, outcome) ==
  /\ request.phase = "handler"
  /\ request.route = "save-image"
  /\ IF ~valid
     THEN /\ request' = [Respond(400) EXCEPT !.ran = TRUE]
          /\ UNCHANGED store
     ELSE IF outcome = "unavailable"
     THEN /\ request' = [Respond(500) EXCEPT !.ran = TRUE]
          /\ UNCHANGED store
     ELSE /\ FreeIds # {}
          /\ store' = [store EXCEPT ![NextDocId] = request.user]
          /\ request' = [Respond(201) EXCEPT !.ran = TRUE, !.added = {NextDocId}]
  /\ UNCHANGED << envVars, pc, callVars, localVars, error, steps, result, unit,
                  calls, http, form >>

\* GET /get-gallery: the requester's documents, or 500
GetGallery(outcome) ==
  /\ request.phase = "handler"
  /\ request.route = "get-gallery"
  /\ request' = [Respond(IF outcome = "ok" THEN 200 ELSE 500) EXCEPT !.ran = TRUE]
  /\ UNCHANGED << envVars, pc, callVars, localVars, error, steps, result, unit,
                  calls, http, store, form >>

\* GET /auth-status
AuthStatus ==
  /\ request.phase = "handler"
  /\ request.route = "auth-status"
  /\ request' = [Respond(200) EXCEPT !.ran = TRUE]
  /\ UNCHANGED << envVars, pc, callVars, localVars, error, steps, result, unit,
                  calls, http, store, form >>

\* the answer to a document snapshot: 404 when it does not exist, 403 when
\* its userId is not the requester's uid, 0 when the handler goes on
SnapshotStatusIgnoringOwner(owner, uid) ==
  IF owner = "missing" THEN 404 ELSE 0

SnapshotStatus(owner, uid) ==
  IF owner = "missing" THEN 404 ELSE IF owner # uid THEN 403 ELSE 0

\* DELETE /delete-image/:imageId up to its delete: the document is read
DeleteImageCheck(outcome) ==
  /\ request.phase = "handler"
  /\ request.route = "delete-image"
  /\ LET owner == Snapshot(request.imageIds[1])
         status == SnapshotStatus(owner, request.user)
     IN  request' =
           IF outcome = "unavailable" THEN [Respond(500) EXCEPT !.ran = TRUE]
           ELSE IF status # 0
           THEN [Respond(status) EXCEPT !.ran = TRUE, !.seen = << owner >>]
           ELSE [request EXCEPT !.phase = "deleting", !.ran = TRUE, !.seen = << owner >>]
  /\ UNCHANGED << envVars, pc, callVars, localVars, error, steps, result, unit,
                  calls, http, store, form >>

\* DELETE /delete-image/:imageId from its delete on
DeleteImageDelete(outcome) ==
  /\ request.phase = "deleting"
  /\ request.route = "delete-image"
  /\ LET id == request.imageIds[1]
     IN  IF outcome = "unavailable"
         THEN /\ request' = Respond(500)
              /\ UNCHANGED store
         ELSE /\ store' = Deleted({id})
              /\ request' = [Respond(200) EXCEPT
                               !.removed = {d \in {id} \cap DocIds : store[d] \in Users}]
  /\ UNCHANGED << envVars, pc, callVars, localVars, error, steps, result, unit,
                  calls, http, form >>

\* POST /delete-bulk up to its first await: 400 on a validation error, else
\* the batch is created and every listed document is asked for
DeleteBulkStart ==
  /\ request.phase = "handler"
  /\ request.route = "delete-bulk"
  /\ request' =
       IF Len(request.imageIds) = 0 THEN [Respond(400) EXCEPT !.ran = TRUE]
       ELSE [request EXCEPT !.phase = "verifying", !.ran = TRUE,
                            !.seen = [i \in 1..Len(request.imageIds) |-> "pending"]]
  /\ UNCHANGED << envVars, pc, callVars, localVars, error, steps, result, unit,
                  calls, http, store, form >>

\* the status the catch clause of /delete-bulk derives from error.message
BulkStatus(message) ==
  IF Includes(message, "not found") THEN 404
  ELSE IF Includes(message, "Unauthorized") THEN 403
  ELSE 500

\* one verification promise of /delete-bulk settles; the first rejection
\* rejects Promise.all and is answered by the catch clause
DeleteBulkVerify(i, outcome) ==
  /\ request.phase = "verifying"
  /\ i \in 1..Len(request.imageIds)
  /\ request.seen[i] = "pending"
  /\ LET id == request.imageIds[i]
         owner == Snapshot(id)
     IN  request' =
           IF outcome = "unavailable"
           THEN Respond(BulkStatus("store unavailable"))
           ELSE IF owner = "missing"
           THEN [Respond(BulkStatus("Image " \o id \o " not found")) EXCEPT
                   !.seen[i] = owner]
           ELSE IF owner # request.user
           THEN [Respond(BulkStatus("Unauthorized to delete image " \o id)) EXCEPT
                   !.seen[i] = owner]
           ELSE [request EXCEPT !.seen[i] = owner, !.batch = @ \cup {id}]
  /\ UNCHANGED << envVars, pc, callVars, localVars, error, steps, result, unit,
                  calls, http, store, form >>

\* Promise.all(verificationPromises) has resolved
SomeVerified(seen) == \E i \in 1..Len(seen) : seen[i] # "pending"

AllVerified(seen) == \A i \in 1..Len(seen) : seen[i] # "pending"

\* /delete-bulk after Promise.all: batch.commit() and the response
DeleteBulkCommit(outcome) ==
  /\ request.phase = "verifying"
  /\ AllVerified(request.seen)
  /\ IF outcome = "unavailable"
     THEN /\ request' = Respond(BulkStatus("store unavailable"))
          /\ UNCHANGED store
     ELSE /\ store' = Deleted(request.batch)
          /\ request' = [Respond(200) EXCEPT
                           !.removed = {d \in request.batch \cap DocIds : store[d] \in Users}]
  /\ UNCHANGED << envVars, pc, callVars, localVars, error, steps, result, unit,
                  calls, http, form >>

\* a request of another client adds a document while this one is in flight
OtherRequestSaves(uid) ==
  /\ FreeIds # {}
  /\ store' = [store EXCEPT ![NextDocId] = uid]
  /\ UNCHANGED << envVars, pc, callVars, localVars, error, steps, result, unit,
                  calls, http, request, form >>

\* a request of another client deletes documents of its own user
OtherRequestDeletes(uid, ids) ==
  /\ ids # {}
  /\ \A id \in ids : store[id] = uid
  /\ store' = Deleted(ids)
  /\ UNCHANGED << envVars, pc, callVars, localVars, error, steps, result, unit,
                  calls, http, request, form >>

\* the response has been sent; the router takes the next request
NextGalleryRequest ==
  /\ request.phase = "responded"
  /\ request' = NoGalleryRequest
  /\ UNCHANGED << envVars, pc, callVars, localVars, error, steps, result, unit,
                  calls, http, store, form >>

NextGallery ==
  \/ \E route \in GalleryRoutes, header \in AuthHeaders :
       \E imageIds \in RequestBodies(route) : ReceiveGalleryRequest(route, header, imageIds)
  \/ \E verdict \in Users \cup {"rejected"} : VerifyToken(verdict)
  \/ \E valid \in BOOLEAN, outcome \in StoreOutcomes : SaveImage(valid, outcome)
  \/ \E outcome \in StoreOutcomes : GetGallery(outcome)
  \/ AuthStatus
  \/ \E outcome \in StoreOutcomes : DeleteImageCheck(outcome)
  \/ \E outcome \in StoreOutcomes : DeleteImageDelete(outcome)
  \/ DeleteBulkStart
  \/ \E i \in 1..MaxBatch, outcome \in StoreOutcomes : DeleteBulkVerify(i, outcome)
  \/ \E outcome \in StoreOutcomes : DeleteBulkCommit(outcome)
  \/ \E uid \in Users : OtherRequestSaves(uid)
  \/ \E uid \in Users, ids \in SUBSET DocIds : OtherRequestDeletes(uid, ids)
  \/ NextGalleryRequest

SpecGallery == Init /\ [][NextGallery]_vars

(***************************************************************************)
(* The form component (components/PromptComponent.jsx): its state hooks,   *)
(* the validation effect, and one handleGenerate run at a time (the        *)
(* Generate button is disabled while isGenerating).                        *)
(***************************************************************************)
FormFields == {"prompt", "complexity", "ageGroup", "lineThickness"}

\* what the user can put in a field
FormValues(field) ==
  IF field = "prompt" THEN {"", "   ", "Dog"}
  ELSE IF field = "complexity" THEN {"", "simple"}
  ELSE IF field = "ageGroup" THEN {"", "kids"}
  ELSE {"", "thin"}

\* formData.prompt.trim().length > 0
HasText(text) == \E i \in 1..Len(text) : SubSeq(text, i, i) # " "

\* the validation effect: prompt needs text, the three selects a value
Validate(formData) ==
  [ prompt |-> HasText(formData.prompt),
    complexity |-> formData.complexity # "",
    ageGroup |-> formData.ageGroup # "",
    lineThickness |-> formData.lineThickness # "" ]

isFormValid(validation) ==
  /\ validation.prompt
  /\ validation.complexity
  /\ validation.ageGroup
  /\ validation.lineThickness

\* how the fetch of /api/refine-prompt and the reading of its body end
FetchOutcomes == {"ok", "not-ok", "rejected", "bad-json"}

\* handleInputChange, and the effect that follows the render
handleInputChange(field, value) ==
  /\ form' = [form EXCEPT !.formData[field] = value,
                          !.validation = Validate([form.formData EXCEPT ![field] = value])]
  /\ UNCHANGED << envVars, pc, callVars, localVars, error, steps, result, unit,
                  calls, http, store, request >>

\* the finally clause of handleGenerate
FinallySkipped(f) == f

Finally(f) == [f EXCEPT !.isGenerating = FALSE, !.run = "done"]

\* a click on the enabled Generate button: handleGenerate up to its first await
handleGenerate ==
  /\ isFormValid(form.validation) /\ ~form.isGenerating
  /\ form.run \in {"none", "done"}
  /\ form' = IF ~isFormValid(form.validation) THEN form
             ELSE [form EXCEPT !.isGenerating = TRUE, !.error = FALSE,
                               !.run = "fetching", !.outcome = "", !.opened = {}]
  /\ UNCHANGED << envVars, pc, callVars, localVars, error, steps, result, unit,
                  calls, http, store, request >>

\* callPromptRefinementAPI settles: the run goes on to the timer, or to the
\* catch and finally clauses
FetchSettles(outcome) ==
  /\ form.run = "fetching"
  /\ form' = IF outcome = "ok"
             THEN [form EXCEPT !.run = "waiting", !.outcome = outcome]
             ELSE Finally([form EXCEPT !.outcome = outcome, !.error = TRUE,
                                       !.showErrorModal = TRUE,
                                       !.opened = @ \cup {"error"}])
  /\ UNCHANGED << envVars, pc, callVars, localVars, error, steps, result, unit,
                  calls, http, store, request >>

\* the 3 s timer fires: the image is set, the result modal opens, finally
TimerFires ==
  /\ form.run = "waiting"
  /\ form' = Finally([form EXCEPT !.generatedImage = TRUE, !.showModal = TRUE,
                                  !.opened = @ \cup {"result"}])
  /\ UNCHANGED << envVars, pc, callVars, localVars, error, steps, result, unit,
                  calls, http, store, request >>

\* handleDownloadPDF, handleSaveToGallery and the close button of the modal
CloseModal ==
  /\ form.showModal
  /\ form' = [form EXCEPT !.showModal = FALSE]
  /\ UNCHANGED << envVars, pc, callVars, localVars, error, steps, result, unit,
                  calls, http, store, request >>

\* the close button of the error modal
CloseErrorModal ==
  /\ form.showErrorModal
  /\ form' = [form EXCEPT !.showErrorModal = FALSE]
  /\ UNCHANGED << envVars, pc, callVars, localVars, error, steps, result, unit,
                  calls, http, store, request >>

NextForm ==
  \/ \E field \in FormFields : \E value \in FormValues(field) : handleInputChange(field, value)
  \/ handleGenerate
  \/ \E outcome \in FetchOutcomes : FetchSettles(outcome)
  \/ TimerFires
  \/ CloseModal
  \/ CloseErrorModal

\* the browser settles every fetch and fires every timer
SpecForm ==
  /\ Init
  /\ [][NextForm]_vars
  /\ WF_vars(\E outcome \in FetchOutcomes : FetchSettles(outcome))
  /\ WF_vars(TimerFires)

\* one call per behaviour: refinePrompt, or checkFamilyFriendly on its own
Next ==
  \/ /\ pc = "idle"
     /\ unit = NoUnit
     /\ \E s \in ModerationInputs : CallCheckFamilyFriendly(s)
  \/ /\ pc = "idle"
     /\ unit = NoUnit
     /\ \E u \in RefineInputs, c \in CustomizationArgs, o \in OptionsArgs :
          RefinePrompt(u, c, o)
  \/ DoSanitizeText
  \/ DoValidateCustomizations
  \/ DoCheckFamilyFriendly
  \/ Configure
  \/ \E content \in CompletionContents : CompletionReturns(content)
  \/ \E failure \in CompletionFailures : CompletionFails(failure)
  \/ CompletionNeverResponds
  \/ TemplateRefinement
  \/ Assemble
  \/ Catch

Spec == Init /\ [][Next]_vars

\* the exported functions called directly, one call per behaviour
NextUnit ==
  \/ /\ unit = NoUnit
     /\ \E x \in SanitizerInputs : CallSanitizeText(x)
  \/ CallSanitizeTextAgain
  \/ /\ unit = NoUnit
     /\ \E s \in ClassifierInputs : CallDetectSubjectCategory(s)
  \/ /\ unit = NoUnit
     /\ \E c \in ValidatorInputs : CallValidateCustomizations(c)
  \/ /\ unit = NoUnit
     /\ \E x \in RefineInputs, c \in FallbackPreferences : CallCreateFallbackPrompt(x, c)
  \/ /\ unit = NoUnit
     /\ \E s \in SubjectTexts, category \in DetectableCategories,
           complexity \in Complexities, ageGroup \in AgeGroups :
          CallEnhanceDescription(s, category, complexity, ageGroup)

SpecUnit == Init /\ [][NextUnit]_vars

(***************************************************************************)
(* Properties.                                                             *)
(***************************************************************************)
Range(seq) == {seq[i] : i \in 1..Len(seq)}

Finished == pc \in {"returned", "rejected"}

ValidateSteps == << "sanitizeText", "validateCustomizations", "checkFamilyFriendly" >>

GenerateSteps ==
  { "gptRefinement", "completions.create", "templateRefinement",
    "detectSubjectCategory", "enhanceDescription", "applyColoringBookSpecs" }

\* the message of the first Validate step that fails on the arguments of the
\* call, "" when all three pass
FirstValidateFailure ==
  IF ~sanitizeText(userInput).ok THEN sanitizeText(userInput).err
  ELSE IF ~validateCustomizations(customizations).ok
       THEN validateCustomizations(customizations).err
  ELSE checkFamilyFriendly(sanitizeText(userInput).v).err

\* a call is under way (or over) whose arguments the Validate stage rejects
ValidateRejects == pc # "idle" /\ FirstValidateFailure # ""

\* C1: refinePrompt never throws to its caller: whatever rawInput (text, empty,
\* absent, number, object), rawPreferences and options (null included), the
\* call ends by returning a result object whose success is true or false, never
\* by raising.
C1_NeverThrows ==
  Finished => /\ pc = "returned"
              /\ "success" \in DOMAIN result
              /\ result.success \in BOOLEAN

\* C2: when the external-completion call fails during a call with useGPT set,
\* the result has success=true and method "template-based", never
\* "gpt-enhanced"; the method is "gpt-enhanced" only when refinedPrompt was
\* built from a returned completion.
C2_FailedCompletionIsTemplateBased ==
  (pc = "returned" /\ "completions.create" \in Range(steps))
    => /\ inGptCatch => /\ result.success
                        /\ result.metadata.method = "template-based"
       /\ result.metadata.method = "gpt-enhanced"
            => \E content \in CompletionContents :
                 result.refinedPrompt = GptRefined(content)

\* C3: when the input text of a call contains a block-listed term, the
\* refinedPrompt of the returned result does not contain that term, on the
\* success path and on the fallback path alike.
C3_BlockedTermNotInPrompt ==
  (pc = "returned" /\ userInput.t = "string")
    => \A term \in Range(FoundInappropriate(userInput.v)) :
         ~Includes(ToLowerCase(result.refinedPrompt), term)

\* the fields of a customizations object whose values pass validation
SurvivingPreferences(c) ==
  ObjOf([k \in {f \in Range(CustomizationFields) : InEnum(f, Get(c, f))} |-> Get(c, k)])

\* the fields of a customizations object that validateCustomizations rejects
RejectedFields(c) ==
  {f \in Range(CustomizationFields) : Truthy(Get(c, f)) /\ ~InEnum(f, Get(c, f))}

\* C4: when a preference is out of its enumerated set, the call returns
\* success=false and the fallback string is built only from the preferences
\* that survived validation, with the defaults (medium, kids, medium, with) for
\* the rest; a rejected raw value never appears in the returned refinedPrompt.
C4_FallbackUsesValidatedPreferences ==
  (pc = "returned" /\ sanitizeText(userInput).ok
     /\ ~validateCustomizations(customizations).ok)
    => /\ ~result.success
       /\ result.refinedPrompt =
            createFallbackPrompt(userInput, SurvivingPreferences(customizations))
       /\ \A f \in RejectedFields(customizations) :
            ~Includes(result.refinedPrompt, StringOf(Get(customizations, f)))

\* C5: the Validate stage runs sanitizeText, validateCustomizations and
\* checkFamilyFriendly in that order; the first step that fails determines the
\* error the catch clause receives and the result records, and after such a
\* failure no classifier, template or external-completion step runs in the call.
C5_ValidateOrderAndShortCircuit ==
  /\ \A i \in 1..Len(steps) :
       /\ steps[i] \in Range(ValidateSteps) => (i <= Len(ValidateSteps) /\ steps[i] = ValidateSteps[i])
       /\ steps[i] \in GenerateSteps =>
            (i > Len(ValidateSteps) /\ SubSeq(steps, 1, Len(ValidateSteps)) = ValidateSteps)
  /\ ValidateRejects =>
       /\ Range(steps) \cap GenerateSteps = {}
       /\ pc = "catch" => error = FirstValidateFailure
       /\ pc = "returned" => /\ result.error = FirstValidateFailure
                             /\ steps[Len(steps)] = "createFallbackPrompt"
                             /\ steps[Len(steps) - 1] \in Range(ValidateSteps)

\* a call rejected by its second Validate step has returned the fallback result
C5_Witness ==
  /\ pc = "returned"
  /\ steps = << "sanitizeText", "validateCustomizations", "createFallbackPrompt" >>
  /\ result.error = "Invalid complexity level"

\* C6: for every input rejected in the Validate stage (empty or over-long text,
\* out-of-enum preference, block-listed term) the call returns success=false,
\* method "fallback", a non-empty refinedPrompt and a non-empty error equal to
\* the message of the triggering failure.
C6_RejectedInputReturnsFallback ==
  (ValidateRejects /\ Finished)
    => /\ pc = "returned"
       /\ ~result.success
       /\ result.metadata.method = "fallback"
       /\ result.refinedPrompt # ""
       /\ result.error # ""
       /\ result.error = FirstValidateFailure

\* C7: sanitizeText is idempotent on what it accepts: sanitizing an accepted
\* text's result again is accepted too and gives the same text.
C7_SanitizeIdempotent ==
  unit.fn = "sanitizeText twice"
    => /\ unit.again.ok
       /\ unit.again.v = unit.out.v

\* for each category of the catalog, in catalog order, the number of its
\* distinct keyword phrases that occur in the lower-cased text
KeywordCounts(text) ==
  LET lower == ToLowerCase(text)
  IN  [ i \in 1..Len(CategoryOrder) |->
          Cardinality({k \in Range(SubjectPatterns[CategoryOrder[i]]) : Includes(lower, k)}) ]

Maximum(counts) == CHOOSE n \in Range(counts) : \A i \in DOMAIN counts : counts[i] <= n

\* C8: detectCategory returns the category of maximum score, the score being the
\* number of its distinct keyword phrases occurring in the lower-cased input;
\* among several categories sharing a positive maximum, the earliest declared.
C8_MaxScoreEarliestWins ==
  unit.fn = "detectSubjectCategory"
    => LET counts == KeywordCounts(unit.arg)
           max == Maximum(counts)
       IN  max > 0 => \E i \in DOMAIN counts :
                        /\ unit.out = CategoryOrder[i]
                        /\ counts[i] = max
                        /\ \A j \in 1..(i - 1) : counts[j] < max

\* a text on which two categories share the positive maximum has been classified
C8_Witness ==
  /\ unit.fn = "detectSubjectCategory"
  /\ LET counts == KeywordCounts(unit.arg)
         max == Maximum(counts)
     IN  /\ max > 0
         /\ Cardinality({i \in DOMAIN counts : counts[i] = max}) > 1

\* C9: detectCategory is total: every text maps to one category name of the
\* catalog, and the result is "general" exactly when no keyword phrase of any
\* category occurs in the lower-cased text.
C9_TotalAndGeneralDefault ==
  unit.fn = "detectSubjectCategory"
    => /\ unit.out \in Range(CategoryOrder) \cup {"general"}
       /\ unit.out \in DOMAIN EnhancementTemplates
       /\ unit.out = "general"
            <=> \A c \in Range(CategoryOrder) : \A k \in Range(SubjectPatterns[c]) :
                  ~Includes(ToLowerCase(unit.arg), k)

\* a non-empty text in which no keyword phrase occurs has been classified
C9_Witness ==
  /\ unit.fn = "detectSubjectCategory"
  /\ unit.arg # ""
  /\ unit.out = "general"

\* C10: the external completion service is called only when options.useGPT is
\* set and the deployment is not in mock mode (mock API key or development
\* environment); otherwise it is never called and the template path produces
\* the result.
C10_CompletionOnlyOutsideMockMode ==
  /\ "completions.create" \in Range(steps)
       => /\ Truthy(Get(options, "useGPT"))
          /\ nodeEnv # "development"
          /\ apiKey # MockKey
  /\ (pc = "returned" /\ result.success /\ "completions.create" \notin Range(steps))
       => result.refinedPrompt = templateRefinement(sanitizedInput, config)

\* the number of occurrences of x in a sequence
Count(seq, x) == Cardinality({i \in 1..Len(seq) : seq[i] = x})

\* C11: within one call the completion service is called at most once; when
\* that call fails (error thrown, response without choices) it is not retried,
\* the template path runs exactly once on the same sanitized input and resolved
\* preferences, and the failure does not reach the caller.
C11_CompletionAtMostOnceThenTemplate ==
  /\ Count(steps, "completions.create") <= 1
  /\ "completions.create" \in Range(steps) =>
       /\ pc \notin {"catch", "rejected"}
       /\ pc = "returned" => result.success
  /\ inGptCatch =>
       /\ pc \in {"templateRefinement", "assemble", "returned"}
       /\ Count(steps, "templateRefinement") <= 1
       /\ pc = "returned" =>
            /\ result.success
            /\ "error" \notin DOMAIN result
            /\ Count(steps, "templateRefinement") = 1
            /\ result.refinedPrompt =
                 templateRefinement(sanitizeText(userInput).v,
                                    MakeConfig(validateCustomizations(customizations).v))

\* a call whose completion call failed has returned
C11_Witness ==
  /\ pc = "returned"
  /\ inGptCatch
  /\ Count(steps, "completions.create") = 1

\* C12: the completion call is bounded by a timeout: while the call waits on
\* a service that never responds, a step of the program that abandons the wait
\* (and leads on to the template path) is enabled.
C12_SilentCompletionIsAbandoned ==
  pc = "awaitCompletion" => ENABLED Next

RecognizedFields == Range(CustomizationFields)

\* C13: validateCustomizations fails whenever a recognized field is present in
\* the raw preferences with a value outside its enumerated set (the empty
\* string, zero and false included); when it succeeds its output holds exactly
\* the recognized fields present in raw, with raw's values, and no other field.
C13_OutOfSetValuesRejected ==
  (unit.fn = "validateCustomizations" /\ unit.arg.t = "object") =>
    LET raw == unit.arg.p
        present == RecognizedFields \cap DOMAIN raw
    IN  /\ (\E k \in present : ~InEnum(k, raw[k])) => ~unit.out.ok
        /\ unit.out.ok =>
             /\ DOMAIN unit.out.v = present
             /\ \A k \in present : unit.out.v[k] = raw[k]

\* the documented defaults; no theme is the null value
DocumentedDefaults ==
  [ complexity |-> Str("medium"), ageGroup |-> Str("kids"),
    lineThickness |-> Str("medium"), border |-> Str("with"), theme |-> Null ]

\* C14: on every success result appliedSettings is the validated preferences
\* merged over the documented defaults (medium, kids, medium, with, no theme):
\* a field the caller set keeps the caller's value, every other field has its
\* default, each field lies in its enumerated set (theme may be none), and for
\* empty preferences appliedSettings is exactly the documented defaults.
C14_AppliedSettingsAreValidatedOverDefaults ==
  (pc = "returned" /\ result.success) =>
    LET applied == result.appliedSettings
        set == {k \in RecognizedFields : Truthy(Get(customizations, k))}
    IN  /\ DOMAIN applied = RecognizedFields
        /\ \A k \in RecognizedFields :
             applied[k] = IF k \in set THEN Get(customizations, k)
                          ELSE DocumentedDefaults[k]
        /\ \A k \in RecognizedFields \ {"theme"} : InEnum(k, applied[k])
        /\ applied.theme = Null \/ InEnum("theme", applied.theme)
        /\ set = {} => applied = DocumentedDefaults

\* a success whose settings hold a caller's value next to defaults
C14_Witness ==
  /\ pc = "returned"
  /\ result.success
  /\ Get(customizations, "complexity") = Str("detailed")
  /\ result.appliedSettings.complexity = Str("detailed")
  /\ result.appliedSettings.lineThickness = Str("medium")

ModerationPrefix == "Content contains inappropriate terms: "

\* the terms a moderation message names: what follows its fixed prefix
NamedTerms(message) ==
  IF Len(message) >= Len(ModerationPrefix)
       /\ SubSeq(message, 1, Len(ModerationPrefix)) = ModerationPrefix
  THEN SubSeq(message, Len(ModerationPrefix) + 1, Len(message))
  ELSE ""

\* the block-listed terms that occur in a text, letter case ignored
MatchedTerms(text) ==
  {term \in Range(InappropriateKeywords) : Includes(ToLowerCase(text), term)}

TemplateStyleClauses ==
  << "coloring book style",
     "family-friendly content",
     "no shading or color fills",
     "clear distinct outlines",
     "high contrast black lines on white background",
     "300 DPI print quality",
     "suitable for coloring with crayons, markers, or colored pencils" >>


EndsWith(s, t) == Len(s) >= Len(t) /\ SubSeq(s, Len(s) - Len(t) + 1, Len(s)) = t

\* C16: the completion path and the template path end their output with the
\* same style-constraint clauses in the same order: every prompt of a success
\* result, whichever path built it, ends with the trailing style-constraint
\* clauses of the template path.
C16_BothPathsEndWithTemplateStyleClauses ==
  (pc = "returned" /\ result.success) =>
    EndsWith(result.refinedPrompt, ", " \o Join(TemplateStyleClauses, ", "))

\* the clauses ahead of the style constraints: role framing, description, and
\* the restated complexity, audience, line thickness and border
LeadingClauses(description, settings) ==
  << "professional black-and-white line art of",
     description,
     "optimized for " \o StringOf(settings.complexity) \o " complexity level",
     "designed for " \o StringOf(settings.ageGroup) \o " target audience",
     "featuring " \o StringOf(settings.lineThickness) \o " line thickness",
     IF settings.border = Str("with")
     THEN "with elegant decorative border elements"
     ELSE "with clean edges and no border" >>

\* C17: on the template path refinedPrompt is one fixed ordered list of
\* thirteen clauses joined by ", ": role framing, the elaborated description of
\* the sanitized input, the restated complexity, audience, line thickness and
\* border, and the seven style-constraint clauses last; only the description
\* and the four restated values vary with the input and the settings.
C17_TemplateClauseOrder ==
  (pc = "returned" /\ result.success /\ "templateRefinement" \in Range(steps)) =>
    LET settings == result.appliedSettings
        description ==
          enhanceDescription(result.originalInput.v, result.detectedCategory,
                             StringOf(settings.complexity), StringOf(settings.ageGroup))
        clauses == LeadingClauses(description, settings) \o TemplateStyleClauses
    IN  /\ Len(clauses) = 13
        /\ result.refinedPrompt = Join(clauses, ", ")
        /\ Includes(description, result.originalInput.v)
        /\ EndsWith(result.refinedPrompt, ", " \o Join(TemplateStyleClauses, ", "))

\* a template-built success for a caller who asked for no border
C17_Witness ==
  /\ pc = "returned"
  /\ result.success
  /\ result.metadata.method = "template-based"
  /\ result.appliedSettings.border = Str("without")
  /\ Includes(result.refinedPrompt, "with clean edges and no border, coloring book style")

\* the message of the error that sends a call to the catch clause: the first
\* failing Validate step's, else the one raised by reading useGPT of null
TriggeringMessage ==
  IF FirstValidateFailure # "" THEN FirstValidateFailure
  ELSE "Cannot read properties of null (reading 'useGPT')"

\* C18: in every result returned by refinePrompt, success=true holds exactly
\* when metadata.method is "template-based" or "gpt-enhanced" and the result
\* has no error field, and success=false holds exactly when metadata.method is
\* "fallback" and the error field holds the triggering error's message.
C18_SuccessMethodErrorAgree ==
  pc = "returned" =>
    /\ result.success <=>
         /\ result.metadata.method \in {"template-based", "gpt-enhanced"}
         /\ "error" \notin DOMAIN result
    /\ ~result.success <=>
         /\ result.metadata.method = "fallback"
         /\ "error" \in DOMAIN result
         /\ result.error = TriggeringMessage

\* a fallback result recording a moderation failure
C18_Witness ==
  /\ pc = "returned"
  /\ ~result.success
  /\ result.metadata.method = "fallback"
  /\ result.error = "Content contains inappropriate terms: knife"

\* C19: every result returned by refinePrompt, success or fallback, carries
\* refinedPrompt, originalInput, detectedCategory, appliedSettings,
\* metadata.method and timestamp.
C19_FullResultShape ==
  pc = "returned" =>
    /\ { "refinedPrompt", "originalInput", "detectedCategory", "appliedSettings",
         "metadata", "timestamp" } \subseteq DOMAIN result
    /\ "method" \in DOMAIN result.metadata

\* the characters of a text, as a set
CharsOf(text) == {CharAt(text, i) : i \in 1..Len(text)}

\* two whitespace characters side by side, or a whitespace character that is
\* not the single space a run is replaced by
HasWhiteSpaceRun(text) ==
  \/ \E i \in 1..(Len(text) - 1) :
       CharAt(text, i) \in WhiteSpace /\ CharAt(text, i + 1) \in WhiteSpace
  \/ CharsOf(text) \cap (WhiteSpace \ {" "}) # {}

\* C20: every text sanitizeText accepts yields a result of 1 to 500
\* characters with none of the five stripped characters and no run of more
\* than one whitespace character; absent, empty and non-text inputs, and texts
\* whose sanitized length is 0 or above 500, are rejected with a validation
\* failure, and no other input is. The bound is on the sanitized text: a raw
\* text longer than 500 characters is accepted when its sanitized form fits.
C20_SanitizedTextIsBoundedAndClean ==
  unit.fn = "sanitizeText" =>
    LET raw == unit.arg
        cleaned == NormalizeWhitespace(StripHarmful(Trim(raw.v)))
    IN  /\ unit.out.ok =>
             /\ Len(unit.out.v) \in 1..MaxInputLength
             /\ CharsOf(unit.out.v) \cap HarmfulChars = {}
             /\ ~HasWhiteSpaceRun(unit.out.v)
        /\ ~unit.out.ok <=>
             \/ raw.t # "string"
             \/ raw.v = ""
             \/ Len(cleaned) \notin 1..MaxInputLength
        /\ ~unit.out.ok =>
             unit.out.err \in {"Invalid input: must be a non-empty string",
                               "Input must be between 1 and 500 characters"}

\* a raw text of more than 500 characters that sanitizeText accepts
C20_Witness ==
  /\ unit.fn = "sanitizeText"
  /\ unit.arg.t = "string"
  /\ Len(unit.arg.v) > MaxInputLength
  /\ unit.out.ok
  /\ Len(unit.out.v) = MaxInputLength

\* C21: createFallbackPrompt is total: for every raw input (text, empty,
\* absent, non-text) and every preferences value (object, absent, null,
\* non-object) it returns a non-empty instruction string, and when the input
\* is not text the returned string does not embed it: it is the generic
\* string, or names the subject "drawing".
C21_FallbackBuilderIsTotal ==
  unit.fn = "createFallbackPrompt" =>
    /\ unit.out \in STRING
    /\ Len(unit.out) > 0
    /\ StartsWith(unit.out, "black-and-white line art")
    /\ unit.input.t # "string" =>
         \/ unit.out = GenericFallbackPrompt
         \/ StartsWith(unit.out, "black-and-white line art of drawing, ")
    /\ Nullish(unit.prefs) /\ unit.prefs # Undefined => unit.out = GenericFallbackPrompt

\* the builder has returned for a number as input and a non-object as
\* preferences
C21_Witness ==
  /\ unit.fn = "createFallbackPrompt"
  /\ unit.input = Num("42")
  /\ unit.prefs = Num("7")
  /\ StartsWith(unit.out, "black-and-white line art of drawing, medium complexity")

\* C22: every category of the keyword catalog (and "general") has a template
\* entry with the three complexity variants simple, medium and detailed, so
\* for every category detectSubjectCategory can return and every validated
\* complexity enhanceDescription applies that category's template: the subject
\* text is wrapped in template text, never returned unexpanded.
C22_EveryCategoryHasAllTemplates ==
  /\ \A category \in Range(CategoryOrder) \cup {"general"} :
       /\ category \in DOMAIN EnhancementTemplates
       /\ DOMAIN EnhancementTemplates[category] = {"simple", "medium", "detailed"}
  /\ DOMAIN SubjectPatterns = Range(CategoryOrder)
  /\ unit.fn = "enhanceDescription" =>
       LET template == EnhancementTemplates[unit.category][unit.complexity]
           expanded == template.pre \o unit.arg \o template.post
       IN  /\ Len(template.pre) + Len(template.post) > 0
           /\ unit.out = expanded \o AgeAdjustments[unit.ageGroup]
           /\ unit.out # unit.arg \o AgeAdjustments[unit.ageGroup]
           /\ \A other \in DOMAIN EnhancementTemplates \ {unit.category} :
                EnhancementTemplates[other][unit.complexity] # template

\* the last category of the catalog expanded at the detailed level
C22_Witness ==
  /\ unit.fn = "enhanceDescription"
  /\ unit.category = "abstract"
  /\ unit.complexity = "detailed"
  /\ Includes(unit.out, unit.arg)
  /\ Len(unit.out) > Len(unit.arg) + Len(AgeAdjustments[unit.ageGroup])

\* the call followed step by step ends as refinePromptAlone says
AloneAgreesWithStepwise ==
  Finished =>
    \E outcome \in CompletionOutcomes \cup {NoOutcome} :
      /\ outcome.kind = "none" <=> "completions.create" \notin Range(steps)
      /\ outcome.kind = "failure" <=> inGptCatch
      /\ [phase |-> pc, result |-> result]
           = refinePromptAlone(userInput, customizations, options, nodeEnv, outcome)

\* C23: calls in flight together are independent: under every interleaving,
\* calls suspended on the completion service included, each call that has
\* ended has ended as it would have when run alone on the same arguments, the
\* same environment and the same completion outcome. (The two catalogs are
\* assigned in the constructor only; no step of a call writes them.)
C23_ConcurrentCallsAreIndependent ==
  \A i \in DOMAIN calls :
    calls[i].phase \in {"returned", "rejected"} =>
      [phase |-> calls[i].phase, result |-> calls[i].result]
        = refinePromptAlone(calls[i].userInput, calls[i].customizations,
                            calls[i].options, nodeEnv, calls[i].response)

\* a call has returned after a failed completion while another call with
\* other preferences is still suspended at an await
C23_Witness ==
  /\ calls[1].phase = "returned"
  /\ calls[1].response.kind = "failure"
  /\ calls[2].phase \in {"awaiting", "settled"}
  /\ calls[2].customizations # calls[1].customizations

\* the categories whose template, at a complexity, wraps the subject inside a
\* prompt
TemplatesIn(prompt, subject, complexity) ==
  {category \in DOMAIN EnhancementTemplates :
     LET template == EnhancementTemplates[category][complexity]
     IN  Includes(prompt, "line art of, " \o template.pre \o subject \o template.post \o ", with")}

C25_InvalidRequestGets400 ==
  (http.phase \in {"responded", "unanswered"} /\ http.errors # {}) =>
    /\ http.phase = "responded"
    /\ http.status = 400
    /\ ~http.success
    /\ http.calls = << >>

\* C29: in development mode POST /api/generate never calls the image-generation
\* service: a request that passed validation is refined and then answered
\* with the mock image response, success=true; the image-generation call is
\* made only when the environment is not development.
C29_DevelopmentNeverGeneratesImages ==
  /\ isDevelopment(nodeEnv) => "images.generate" \notin Range(http.calls)
  /\ (/\ http.route = "/api/generate"
      /\ http.phase = "responded"
      /\ http.errors = {}
      /\ nodeEnv = "development") =>
       /\ http.calls \in {<< "refinePrompt" >>, << "refinePrompt", "saveToGallery" >>}
       /\ http.status = 200
       /\ http.success
       /\ http.mock
  /\ http.mock => nodeEnv = "development"

\* in development a request whose refinement fell back has been answered with
\* the mock image
C29_Witness ==
  /\ nodeEnv = "development"
  /\ http.route = "/api/generate"
  /\ http.phase = "responded"
  /\ http.mock
  /\ ~http.refinement.success

\* C26: DELETE /delete-image/:imageId deletes a document only if the
\* snapshot it read exists with the requester's uid as userId, and then it is
\* the named document alone; a request answered 404 or 403 found the image
\* missing or owned by another user and has not changed the collection.
C26_DeleteImageOnlyOwn ==
  request.route = "delete-image" =>
    /\ request.added = {}
    /\ request.removed \subseteq {request.imageIds[1]}
    /\ request.removed # {} =>
         /\ request.ran
         /\ request.status = 200
         /\ request.seen = << request.user >>
    /\ request.status = 404 => request.seen = << "missing" >> /\ request.removed = {}
    /\ request.status = 403 =>
         /\ request.seen[1] \in Users \ {request.user}
         /\ request.removed = {}
    /\ (request.phase = "responded" /\ request.status # 200) => request.removed = {}

\* a request to delete the image of another user was answered 403 although
\* the image has been deleted since by its owner
C26_Witness ==
  /\ request.route = "delete-image"
  /\ request.phase = "responded"
  /\ request.status = 403
  /\ request.imageIds[1] \in DocIds
  /\ store[request.imageIds[1]] = "deleted"

\* C27: POST /delete-bulk is all or nothing: once a verification found a
\* listed image missing or owned by another user the answer is 404 or 403
\* and nothing is deleted; documents are deleted only by the one commit, after
\* every listed image was seen to belong to the requester, and then none of
\* the listed images is left.
C27_DeleteBulkAllOrNothing ==
  request.route = "delete-bulk" =>
    LET listed == Range(request.imageIds)
        found == Range(request.seen)
    IN  /\ request.added = {}
        /\ (found \ {"pending", request.user} # {}) =>
             /\ request.phase = "responded"
             /\ request.status \in {404, 403}
             /\ request.removed = {}
        /\ request.removed # {} =>
             /\ request.status = 200
             /\ found = {request.user}
             /\ request.batch = listed
        /\ (request.phase = "responded" /\ request.status = 200) =>
             /\ found = {request.user}
             /\ request.removed \subseteq listed
             /\ \A id \in listed : store[id] \notin Users
        /\ (request.phase = "responded" /\ request.status # 200) => request.removed = {}

\* a request listing an image of the requester and one it may not delete
\* was refused after the first was put in the batch, and that image is there
C27_Witness ==
  /\ request.route = "delete-bulk"
  /\ request.phase = "responded"
  /\ request.status \in {404, 403}
  /\ \E id \in request.batch : store[id] = request.user

\* C28: a gallery or auth-status handler runs only for a request whose
\* Bearer token the verifier decoded, with req.user the uid of that token;
\* a request without the header, with a header that does not start with
\* "Bearer ", or with a token the verifier rejects is answered 401 and its
\* handler never runs.
C28_HandlersRunBehindVerifyToken ==
  /\ (request.ran \/ request.phase \in {"handler", "deleting", "verifying"}
      \/ request.added # {} \/ request.removed # {}) =>
       /\ StartsWith(request.header, "Bearer ")
       /\ request.idToken \in DOMAIN TokenUids
       /\ request.header = "Bearer " \o request.idToken
       /\ request.verdict = TokenUids[request.idToken]
       /\ request.user = request.verdict
  /\ (/\ request.phase \notin {"idle", "verifyToken"}
      /\ \/ request.header = ""
         \/ ~StartsWith(request.header, "Bearer ")
         \/ request.verdict = "rejected") =>
       /\ request.phase = "responded"
       /\ request.status = 401
       /\ ~request.ran
       /\ request.added = {} /\ request.removed = {}
  /\ request.status = 401 => ~request.ran

\* a request to delete images whose own token the verifier rejected was
\* answered 401
C28_Witness ==
  /\ request.route = "delete-bulk"
  /\ request.phase = "responded"
  /\ request.status = 401
  /\ request.idToken \in DOMAIN TokenUids
  /\ \E i \in 1..Len(request.imageIds) : Snapshot(request.imageIds[i]) = TokenUids[request.idToken]

\* C30: a handleGenerate run of the valid form sets isGenerating and the run
\* in flight keeps it set; every run ends, with isGenerating false again,
\* whether the refinement request succeeded or failed; the step that ends a
\* run opens the result modal and not the error modal when the request
\* succeeded, and the error modal and not the result modal when it failed.
C30_RunEndsAndOpensOneModal ==
  /\ [](form.run \in {"fetching", "waiting"} => form.isGenerating)
  /\ [](form.run = "done" =>
          form.opened = (IF form.outcome = "ok" THEN {"result"} ELSE {"error"}))
  /\ [][(form.run = "none" \/ form.run = "done") /\ form'.run = "fetching" =>
          isFormValid(form.validation) /\ form'.isGenerating]_vars
  /\ [][form.run \in {"fetching", "waiting"} /\ form'.run = "done" =>
          /\ ~form'.isGenerating
          /\ IF form'.outcome = "ok"
             THEN form'.showModal /\ form'.showErrorModal = form.showErrorModal
             ELSE form'.showErrorModal /\ form'.showModal = form.showModal]_vars
  /\ (form.isGenerating ~> ~form.isGenerating)
  /\ (form.run = "fetching" ~> form.run = "done")

\* a run whose request failed has ended with the error modal open and the
\* result modal closed
C30_Witness ==
  /\ form.run = "done"
  /\ form.outcome = "not-ok"
  /\ ~form.isGenerating
  /\ form.showErrorModal
  /\ ~form.showModal
  /\ form.generatedImage

====
